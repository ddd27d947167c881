---------------------------- MODULE MCReconcile -----------------------------
(***************************************************************************)
(* A small instance of Reconcile for TLC: a site and a subdomain of it,    *)
(* each an entry, and the site an exact one too.                           *)
(***************************************************************************)
EXTENDS Reconcile

CONSTANTS t1, t2

Site == <<"org", "site">>
Sub == <<"org", "site", "www">>
SiteAndSub == {Site, Sub}
SomeEntries == {Entry(Site), Entry(Sub), [host |-> Site, exact |-> TRUE]}
=============================================================================
