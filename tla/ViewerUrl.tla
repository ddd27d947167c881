------------------------------ MODULE ViewerUrl ------------------------------
(***************************************************************************)
(* The viewer's `?url=` wire format (viewer-url.mjs) on its way around: DNR *)
(* and the sweep write it, the page reads it in two halves (its own         *)
(* location) and rewrites it from the engine's signals, the sweep and the   *)
(* popup read it whole.  A URL is a sequence of tokens, of which only the   *)
(* delimiters matter; enc marks a percent-encoded one.                     *)
(***************************************************************************)
EXTENDS Naturals, Sequences

CONSTANTS Pages,        \* addresses of the web: sequences of words
          OwnParams,    \* parameters a viewer is opened with by hand: sequences of words
          NoTarget      \* null

\* What becomes a viewer's address by itself is a page of the web (http or https)
ASSUME PagesAssumption == /\ \A page \in Pages : page \in Seq(STRING) /\ page # <<>> /\ page[1] = "https:"
                          /\ OwnParams \subseteq Seq(STRING)

VARIABLES address,      \* the tab's URL, from its "?" on
          own,          \* the page's ownParams
          shown,        \* the engine's URL
          canonical     \* the address was last written by our code

urlVars == <<address, own, shown, canonical>>

Plain(words) == [i \in DOMAIN words |-> [word |-> words[i], enc |-> FALSE]]
Word(u, i) == IF u[i].enc THEN "%" ELSE u[i].word

-----------------------------------------------------------------------------
(* viewer-url.mjs *)

FirstMatch(matches) == CHOOSE i \in matches : \A j \in matches : i <= j
\* URL_PARAM: the positions of [?&]url=
UrlParam(u) == {i \in 1..(Len(u) - 1) : Word(u, i) \in {"?", "&"} /\ Word(u, i + 1) = "url="}

\* The tolerated form: an absolute http(s) URL that is percent-encoded, and well so
EncodedHttp(raw) == raw # <<>> /\ raw[1].enc /\ raw[1].word = "https:"
WellFormed(raw) == \A i \in DOMAIN raw : raw[i].word # "bad escape"
Decoded(raw) == [i \in DOMAIN raw |-> [raw[i] EXCEPT !.enc = FALSE]]

SliceTarget(u, rawHash) ==
    IF UrlParam(u) = {} THEN NoTarget
    ELSE LET raw == SubSeq(u, FirstMatch(UrlParam(u)) + 2, Len(u))
         IN IF ~EncodedHttp(raw) THEN raw \o rawHash
            ELSE IF WellFormed(raw) THEN Decoded(raw) ELSE raw

\* viewerTarget, of a URL that starts with the viewer's base
ViewerTarget(u) == IF u = <<>> \/ Word(u, 1) # "?" THEN NoTarget ELSE SliceTarget(u, <<>>)

ViewerParams(u) ==
    LET head == IF UrlParam(u) = {} THEN u ELSE SubSeq(u, 1, FirstMatch(UrlParam(u)) - 1)
    IN IF head # <<>> /\ Word(head, 1) = "?" THEN Tail(head) ELSE head

ViewerURLFor(target, ownParams) ==
    Plain(<<"?">>) \o (IF ownParams = <<>> THEN <<>> ELSE ownParams \o Plain(<<"&">>))
    \o Plain(<<"url=">>) \o target

-----------------------------------------------------------------------------
(* The page. *)

\* location.search and location.hash
HashAt(u) == {i \in DOMAIN u : Word(u, i) = "#"}
Search(u) == IF HashAt(u) = {} THEN u ELSE SubSeq(u, 1, FirstMatch(HashAt(u)) - 1)
Fragment(u) == IF HashAt(u) = {} THEN <<>> ELSE SubSeq(u, FirstMatch(HashAt(u)), Len(u))
\* The browser shows no hash of an address that ends in a bare "#"
Hash(u) == IF Len(Fragment(u)) = 1 THEN <<>> ELSE Fragment(u)
\* A faulty variant: the fragment is forgotten.
RawUrlParamNoHash(u) == SliceTarget(Search(u), <<>>)
RawUrlParam(u) == SliceTarget(Search(u), Hash(u))

\* normalizeEngineURL: a bare address is completed, what is not http(s) is refused
NormalizeEngineURL(raw) ==
    IF raw = NoTarget \/ raw = <<>> THEN NoTarget
    ELSE CASE Word(raw, 1) = "https:" -> raw
           [] Word(raw, 1) = "host"   -> Plain(<<"https:">>) \o raw
           [] OTHER -> NoTarget

\* The page boots on the address u
Boot(u) == /\ address' = u /\ own' = ViewerParams(Search(u))
           /\ shown' = NormalizeEngineURL(RawUrlParam(u))

\* A tab that has no page yet
UrlInit == address = <<>> /\ own = <<>> /\ shown = NoTarget /\ canonical = FALSE

\* The DNR redirect's \0, or the sweep
RedirectTo(page) == Boot(ViewerURLFor(Plain(page), <<>>)) /\ canonical' = TRUE
\* A bookmark, or a URL typed by hand: any parameters, either form, any target
OpenByHand(ownParams, page, encode) ==
    /\ Boot(ViewerURLFor([i \in DOMAIN page |-> [word |-> page[i], enc |-> encode]], Plain(ownParams)))
    /\ canonical' = FALSE
\* syncTabHistory, on the engine's signal of a navigation (about: pages are not mirrored)
UrlSignal(page) == /\ shown # NoTarget /\ shown' = Plain(page)
                   /\ address' = ViewerURLFor(shown', own) /\ canonical' = TRUE
                   /\ UNCHANGED own
\* Reload, and a native back to an entry the engine no longer has
ReloadPage == Boot(address) /\ UNCHANGED canonical
\* The user edits the fragment: popstate loads the entry
EditFragment(words) ==
    /\ address' = Search(address) \o Plain(<<"#">> \o words)
    /\ shown # NoTarget /\ shown' = NormalizeEngineURL(RawUrlParam(address'))
    /\ UNCHANGED <<own, canonical>>
\* The sweep hands the tab to the browser: ViewerTarget of the whole URL, if it is http(s)
HandNatively == /\ NormalizeEngineURL(ViewerTarget(address)) # NoTarget
                /\ address' = ViewerTarget(address) /\ shown' = NoTarget /\ canonical' = FALSE
                /\ UNCHANGED own

IsViewer(u) == u # <<>> /\ Word(u, 1) = "?"
UrlNext == \/ \E page \in Pages : RedirectTo(page) \/ (IsViewer(address) /\ UrlSignal(page))
           \/ \E ownParams \in OwnParams, page \in Pages \cup {<<"file:", "x">>, <<"host", "?", "x">>, <<"https:", "bad escape">>},
                 encode \in BOOLEAN : OpenByHand(ownParams, page, encode)
           \/ IsViewer(address) /\ (ReloadPage \/ HandNatively)
           \/ IsViewer(address) /\ \E words \in {<<>>, <<"x">>, <<"?", "url=", "x">>} : EditFragment(words)
UrlSpec == UrlInit /\ [][UrlNext]_urlVars

-----------------------------------------------------------------------------
Trimmed(u) == IF HashAt(u) = {Len(u)} THEN SubSeq(u, 1, Len(u) - 1) ELSE u

\* The readers agree: of an address our code wrote, whatever its target's own query and fragment
\* look like, the sweep and the popup read the engine's URL, a reload would read it from its two
\* halves, and the viewer's parameters come back unchanged.  Only an empty fragment, a "#" at
\* the end, is lost on the page and the engine once the address is loaded: location.hash is "".
ReadersAgree ==
    canonical => LET target == ViewerTarget(address)
                 IN /\ shown \in {target, Trimmed(target)} /\ RawUrlParam(address) = Trimmed(target)
                    /\ ViewerParams(Search(address)) = own
=============================================================================
