------------------------------- MODULE BigInt -------------------------------
(***************************************************************************)
(* internal/utils/bigint/big.go.  A bigint.Int is a pointer to a big.Int,  *)
(* so that variables may come to share a number: FromBigInt takes over the *)
(* pointer (formatEvent does it with the event's amount), ToInt gives it   *)
(* away, and rows are copied with their pointers.  The decoders allocate a *)
(* new big.Int each time.                                                  *)
(*                                                                         *)
(* cells  the big.Ints allocated so far                                    *)
(* ptr    the cell each variable points to, or NilPtr                      *)
(*                                                                         *)
(* A text is taken apart as far as the code looks at it: whether it is     *)
(* quoted, whether it has the prefix 0x, and what the rest is.             *)
(***************************************************************************)
EXTENDS Integers, Sequences

CONSTANTS
  Holder,    \* variables of type bigint.Int
  Number,    \* the integers they are given
  Nil,       \* the value of a variable without a number
  MaxCells   \* bound: big.Ints ever allocated

ASSUME NumberAssumption == Number \subseteq Int /\ 0 \in Number /\ Nil \notin Number

VARIABLES cells, ptr,
  failed,    \* did the last operation return an error?
  last       \* history: the last operation, its receiver and its argument

vars == <<cells, ptr, failed, last>>

NilPtr == 0

Text == [quoted : BOOLEAN, prefix : BOOLEAN,
         rest : {<<"number", n>> : n \in Number}
                  \cup {<<"nothing">>, <<"null">>, <<"junk">>}]

Plain(rest) == [quoted |-> FALSE, prefix |-> FALSE, rest |-> rest]

Quoted(text) == [text EXCEPT !.quoted = TRUE]

IsNil(h) == ptr[h] = NilPtr

Read(h) == IF IsNil(h) THEN Nil ELSE cells[ptr[h]]

Init ==
  /\ cells = <<>> /\ ptr = [h \in Holder |-> NilPtr]
  /\ failed = FALSE /\ last = [op |-> "none"]

-----------------------------------------------------------------------------
Allocate(h, n) ==
  /\ Len(cells) < MaxCells
  /\ cells' = Append(cells, n)
  /\ ptr' = [ptr EXCEPT ![h] = Len(cells) + 1]
  /\ failed' = FALSE

Point(h, p) == ptr' = [ptr EXCEPT ![h] = p] /\ UNCHANGED cells

Share(h, g) == Point(h, ptr[g]) /\ failed' = FALSE

Leave == UNCHANGED <<cells, ptr>> /\ failed' = FALSE

(* New and NewUint.                                                         *)
New(h) == \E n \in Number : Allocate(h, n)

FromBigInt(h, g) == Share(h, g)

Copy(h, g) == IF IsNil(g) THEN Share(h, g) ELSE Allocate(h, Read(g))

Safer(h) == IF IsNil(h) THEN Allocate(h, 0) ELSE Leave

(* ToInt works on a copy of its receiver: a nil one stays nil.              *)
ToInt(h, g) == IF IsNil(g) THEN Allocate(h, 0) ELSE Share(h, g)

(* i.Int, ok = new(big.Int).SetString(...): a failure leaves nil.           *)
SetString(h, text) ==
  IF text.rest[1] = "number" THEN Allocate(h, text.rest[2])
  ELSE Point(h, NilPtr) /\ failed' = TRUE

(* Scan: the column is NULL, a text, an int64 or of a type that cannot be   *)
(* converted.  A text with a prefix is not decimal.                         *)
ScanText(h, text) ==
  SetString(h, IF text.prefix \/ text.quoted THEN Plain(<<"junk">>) ELSE text)

Scan(h, source) ==
  \/ source = <<"NULL">> /\ Leave
  \/ source[1] = "text" /\ ScanText(h, source[2])
  \/ source[1] = "int64" /\ Allocate(h, source[2])
  \/ source = <<"other">> /\ UNCHANGED <<cells, ptr>> /\ failed' = TRUE

Sources ==
  {<<"text", t>> : t \in Text} \cup {<<"int64", n>> : n \in Number}
    \cup {<<"NULL">>, <<"other">>}

Value(h) == IF IsNil(h) THEN <<"NULL">> ELSE <<"text", Plain(<<"number", Read(h)>>)>>

(* UnmarshalJSON: the quotes are dropped first, so that "null" is null.     *)
UnmarshalJSON(h, text) ==
  IF text.rest = <<"nothing">> \/ (text.rest = <<"null">> /\ ~text.prefix)
  THEN Leave
  ELSE SetString(h, text)

(* Variant with a bug: a nil Int is written as a zero.                      *)
MarshalJSONZero(h) ==
  Quoted(Plain(<<"number", IF IsNil(h) THEN 0 ELSE Read(h)>>))

MarshalJSON(h) ==
  IF IsNil(h) THEN Plain(<<"null">>) ELSE Quoted(Plain(<<"number", Read(h)>>))

-----------------------------------------------------------------------------
Did(name, h, g) == last' = [op |-> name, to |-> h, of |-> g]

Next ==
  \E h, g \in Holder :
    \/ New(h) /\ Did("New", h, h)
    \/ FromBigInt(h, g) /\ Did("FromBigInt", h, g)
    \/ Copy(h, g) /\ Did("Copy", h, g)
    \/ Safer(h) /\ Did("Safer", h, h)
    \/ ToInt(h, g) /\ Did("ToInt", h, g)
    \/ \E s \in Sources : Scan(h, s) /\ Did("Scan", h, h)
    \/ \E t \in Text : UnmarshalJSON(h, t) /\ Did("UnmarshalJSON", h, h)
    \/ Scan(h, Value(g)) /\ Did("written and read", h, g)
    \/ UnmarshalJSON(h, MarshalJSON(g)) /\ Did("written and read", h, g)

Spec == Init /\ [][Next]_vars

-----------------------------------------------------------------------------
(* Properties.                                                              *)

(* What is written to a column or as JSON is read back as the same number,  *)
(* and without an error; only nil, written as null, leaves the variable as  *)
(* it was.                                                                  *)
ReadBack ==
  [][\A h, g \in Holder :
       last' = [op |-> "written and read", to |-> h, of |-> g] =>
         /\ ~failed'
         /\ Read(h)' = IF IsNil(g) THEN Read(h) ELSE Read(g)]_vars
=============================================================================
