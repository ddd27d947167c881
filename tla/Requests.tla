------------------------------ MODULE Requests ------------------------------
(***************************************************************************)
(* What the modules of the fetch bridge agree on: the viewer tabs of one   *)
(* browser profile, the requests their engines issue, and what each        *)
(* request asks for.                                                       *)
(*                                                                         *)
(* A request id is a small integer that netBridgeStart hands out           *)
(* (engine/.../BibNetBridge.cpp:50-57).  The ids of two tabs come from two *)
(* engines and never meet, so the model gives every request of the profile *)
(* its own value and TabOf says which engine issues it.                    *)
(***************************************************************************)
EXTENDS Integers, Sequences, FiniteSets

CONSTANTS
  Tab,         \* viewer tabs: one page, one engine, one Bridge each
  Req,         \* requests the engines may issue
  Url,         \* URLs, after keyOf's normalisation
  UA,          \* User-Agent strings
  TabOf,       \* [Req -> Tab]      the tab whose engine issues the request
  UrlOf,       \* [Req -> Url]      what it asks for
  UAOf,        \* [Req -> UA]       the User-Agent the engine put on it
  HasHeaders,  \* [Req -> BOOLEAN]  it has other DNR-carried headers (cookie, sec-fetch-*...)
  IsMain,      \* [Req -> BOOLEAN]  "main":1, a top-level document request
  Denied,      \* URLs evaluateRequest (guard.mjs) refuses
  Nobody       \* "no request": the owner of a discard, null for a UA

ASSUME RequestsAssumption ==
  /\ TabOf \in [Req -> Tab]
  /\ UrlOf \in [Req -> Url]
  /\ UAOf \in [Req -> UA]
  /\ HasHeaders \in [Req -> BOOLEAN]
  /\ IsMain \in [Req -> BOOLEAN]
  /\ Denied \subseteq Url
  /\ Nobody \notin Req
  /\ Nobody \notin UA
=============================================================================
