---------------------------- MODULE MCDeployment -----------------------------
(***************************************************************************)
(* Instances of Deployment.  Two networks are one that deployed.js lists   *)
(* and one where nothing is deployed yet, so that addresses of the one can *)
(* come to be used on the other.                                           *)
(***************************************************************************)
EXTENDS Deployment

ListedNetworks == {"arbitrumGoerli"}

FreshNetworks == {"localhost"}
==============================================================================
