------------------------------ MODULE WasmScan -------------------------------
(***************************************************************************)
(* The guest's WebAssembly (wasm-polyfill.js): a module's section headers  *)
(* are walked to count the tables it defines before its bytes go to        *)
(* binaryen (engine-pre.js), which would work for a minute on one with two *)
(* and then refuse it.  A module is kept as its sections; the walk reads   *)
(* the bytes they stand for.                                               *)
(***************************************************************************)
EXTENDS Integers, Sequences

CONSTANTS Modules,      \* modules a page compiles
          MaxCalls      \* bound: calls of a page

VARIABLES bytes,        \* definedTableCount's copy of the module, from byte 8 on
          cursor,       \* its p, one-based
          wasmCall,     \* the call: its kind, the module, where it is, the count, the outcome
          binaryen,     \* the import has resolved
          wasmCalls

wasmVars == <<bytes, cursor, wasmCall, binaryen, wasmCalls>>

-----------------------------------------------------------------------------
(* The binary format: a section is an id, its size as a LEB128 number that
   linkers pad to `pad` bytes, and its payload; a table section's begins with
   the number of tables.  `cut` bytes are missing at the end of the file. *)
Section == [id : 0..255, pad : Nat \ {0}, tables : Nat, rest : Seq(0..255)]
\* What is left of n after its first digits
Digits(n, pad) == LET left[i \in 0..pad] == IF i = 0 THEN n ELSE left[i - 1] \div 128 IN left
Fits(n, pad) == n <= 2147483647 /\ Digits(n, pad)[pad] = 0
Leb(n, pad) == [i \in 1..pad |-> (Digits(n, pad)[i - 1] % 128) + (IF i < pad THEN 128 ELSE 0)]
Payload(s) == IF s.id = 4 THEN Leb(s.tables, s.pad) \o s.rest ELSE s.rest
SectionBytes(s) == <<s.id>> \o Leb(Len(Payload(s)), s.pad) \o Payload(s)
Prefixes(m) == LET upTo[i \in 0..Len(m.sections)] ==
                       IF i = 0 THEN <<>> ELSE upTo[i - 1] \o SectionBytes(m.sections[i])
               IN upTo
Whole(m) == Prefixes(m)[Len(m.sections)]
FileBytes(m) == SubSeq(Whole(m), 1, Len(Whole(m)) - m.cut)
\* What it defines
TableSections(m) == {i \in DOMAIN m.sections : m.sections[i].id = 4}
TablesOf(m) == IF TableSections(m) = {} THEN 0
               ELSE m.sections[CHOOSE i \in TableSections(m) : TRUE].tables
Truncated(m) == m.cut > 0
\* The format has one table section at most, and numbers that fit their bytes
ValidModule(m) ==
    /\ m.cut \in Nat /\ m.sections \in Seq(Section)
    /\ \A i, j \in TableSections(m) : i = j
    /\ \A i \in DOMAIN m.sections :
         LET s == m.sections[i] IN Fits(Len(Payload(s)), s.pad) /\ (s.id = 4 => Fits(s.tables, s.pad))

ASSUME WasmAssumption == MaxCalls \in Nat /\ \A m \in Modules : m.header = "v1" => ValidModule(m)

-----------------------------------------------------------------------------
(* definedTableCount. *)

\* Past the end, undefined counts as 0
Byte(i) == IF i \in DOMAIN bytes THEN bytes[i] ELSE 0
\* A faulty variant: sizes are single bytes.
LebEndFirst(i) == i
\* u32: a number's last byte is the first without the continuation bit.  The values stay below
\* 2^31 (Fits), so that no bit is shifted out
LebEnd(i) == CHOOSE j \in i..(Len(bytes) + 1) \cup {i} :
                 Byte(j) < 128 /\ \A k \in i..(j - 1) : Byte(k) >= 128
U32(i) == LET value[j \in i..LebEnd(i)] ==
                  (Byte(j) % 128) + (IF j = LebEnd(i) THEN 0 ELSE 128 * value[j + 1])
          IN value[i]

NoCall == [kind |-> "none", module |-> CHOOSE m \in Modules : TRUE, at |-> "idle", count |-> 0,
         outcome |-> "none"]
WasmInit == bytes = <<>> /\ cursor = 1 /\ wasmCall = NoCall /\ binaryen = FALSE /\ wasmCalls = 0

\* WebAssembly.Module, compile and instantiate translate; validate validates.  A header that
\* is not a v1 module's has no count
WasmCall(kind, m) ==
    /\ wasmCall.at = "idle" /\ wasmCalls < MaxCalls /\ wasmCalls' = wasmCalls + 1
    /\ bytes' = FileBytes(m) /\ cursor' = 1
    /\ wasmCall' = CASE m.header = "v1" -> [NoCall EXCEPT !.kind = kind, !.module = m, !.at = "scan"]
                     [] m.header = "no wasm" /\ kind = "validate" ->
                            [NoCall EXCEPT !.kind = kind, !.module = m, !.outcome = "false"]
                     [] OTHER -> [NoCall EXCEPT !.kind = kind, !.module = m, !.at = "counted", !.count = -1]
    /\ UNCHANGED binaryen

Counted(n) == wasmCall' = [wasmCall EXCEPT !.at = "counted", !.count = n]
\* A section's header is read, and its payload skipped unless it is the tables'
ScanSection ==
    /\ wasmCall.at = "scan" /\ cursor <= Len(bytes)
    /\ LET payload == LebEnd(cursor + 1) + 1
       IN IF Byte(cursor) = 4 THEN Counted(U32(payload)) /\ cursor' = LebEnd(payload) + 1
          ELSE cursor' = payload + U32(cursor + 1) /\ UNCHANGED wasmCall
    /\ UNCHANGED <<bytes, binaryen, wasmCalls>>
ScanEnds == /\ wasmCall.at = "scan" /\ cursor > Len(bytes) /\ Counted(0)
            /\ UNCHANGED <<bytes, cursor, binaryen, wasmCalls>>

-----------------------------------------------------------------------------
(* translate and validate, with the count. *)

WasmAnswers(outcome) == wasmCall' = [wasmCall EXCEPT !.at = "idle", !.outcome = outcome]
TooMany == wasmCall.count > 1
ToBridge == /\ wasmCall.at = "counted"
            /\ IF TooMany THEN WasmAnswers(IF wasmCall.kind = "translate" THEN "refused" ELSE "true")
               ELSE wasmCall' = [wasmCall EXCEPT !.at = "bridge"]
            /\ UNCHANGED <<bytes, cursor, binaryen, wasmCalls>>

\* Module.bibWasm2js: null until binaryen is there; readBinary throws on invalid bytes, and
\* on valid ones emitAsmjs may still fail
BibWasm2js ==
    /\ wasmCall.at = "bridge"
    /\ \/ ~binaryen /\ WasmAnswers(IF wasmCall.kind = "translate" THEN "CompileError" ELSE "false")
       \/ /\ binaryen
          /\ \/ wasmCall.kind = "validate"
                /\ WasmAnswers(IF wasmCall.module.header = "v1" /\ ~Truncated(wasmCall.module) THEN "true" ELSE "false")
             \/ wasmCall.kind = "translate" /\ WasmAnswers("CompileError")
             \/ /\ wasmCall.kind = "translate" /\ wasmCall.module.header = "v1" /\ ~Truncated(wasmCall.module)
                /\ WasmAnswers("factory")
    /\ UNCHANGED <<bytes, cursor, binaryen, wasmCalls>>
BinaryenLoads == ~binaryen /\ binaryen' = TRUE /\ UNCHANGED <<bytes, cursor, wasmCall, wasmCalls>>

WasmNext == \/ ScanSection \/ ScanEnds \/ ToBridge \/ BibWasm2js \/ BinaryenLoads
            \/ \E kind \in {"translate", "validate"}, m \in Modules : WasmCall(kind, m)
WasmSpec == WasmInit /\ [][WasmNext]_wasmVars

-----------------------------------------------------------------------------
\* The walk neither refuses unheard a module binaryen could take, nor sends it one it would
\* grind through: whatever its sections' sizes and contents, and however they are written, a
\* complete module is refused at once exactly if it defines two tables or more.
TablesAreCounted ==
    wasmCall.kind # "none" /\ wasmCall.module.header = "v1" /\ ~Truncated(wasmCall.module) =>
        /\ wasmCall.at = "bridge" \/ wasmCall.outcome \in {"factory", "CompileError"} =>
               TablesOf(wasmCall.module) < 2
        /\ wasmCall.outcome = "refused" => TablesOf(wasmCall.module) >= 2
=============================================================================
