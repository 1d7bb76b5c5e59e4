---------------------------- MODULE MCDeployment ----------------------------
(***************************************************************************)
(* A small instance of the deployment for TLC.                             *)
(***************************************************************************)
EXTENDS Deployment, TLC

CONSTANTS c1, c2, w1, h1, p1, r1, t1, admin

\* A worker of a container, and a server that is started by hand.
MCHome == (w1 :> c1) @@ (h1 :> None)

\* Earlier releases lacked nothing, a template, a permission, or a role.
MCReleases == {Rows, Rows \ {t1}, Rows \ {p1}, Rows \ {r1}}
=============================================================================
