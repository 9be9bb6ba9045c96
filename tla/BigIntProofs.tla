---------------------------- MODULE BigIntProofs ----------------------------
(***************************************************************************)
(* What is written is read back, for every set of variables and of numbers *)
(* and whatever is allocated.                                              *)
(***************************************************************************)
EXTENDS BigInt, TLAPS

(* No variable points to a big.Int that was never allocated.                *)
TypeInv ==
  /\ cells \in Seq(Number)
  /\ ptr \in [Holder -> Nat]
  /\ \A h \in Holder : ptr[h] <= Len(cells)

(* What an operation on h may do to the other variables: nothing.           *)
Spares(h) == TypeInv' /\ \A k \in Holder : k # h => Read(k)' = Read(k)

-----------------------------------------------------------------------------
(* The two ways a variable gets a number, and what each variable reads      *)
(* afterwards.                                                              *)
LEMMA AllocateReads ==
  ASSUME TypeInv, NEW h \in Holder, NEW n \in Number, Allocate(h, n)
  PROVE  Spares(h) /\ Read(h)' = n
<1>1. /\ cells' = Append(cells, n)
      /\ ptr' = [ptr EXCEPT ![h] = Len(cells) + 1]
      /\ cells \in Seq(Number) /\ ptr \in [Holder -> Nat]
      /\ \A k \in Holder : ptr[k] <= Len(cells)
  BY DEF Allocate, TypeInv
<1>2. /\ cells' \in Seq(Number)
      /\ Len(cells) \in Nat
      /\ Len(cells') = Len(cells) + 1
      /\ \A i \in 1..Len(cells) : cells'[i] = cells[i]
      /\ cells'[Len(cells) + 1] = n
  BY <1>1
<1>3. /\ ptr' \in [Holder -> Nat]
      /\ ptr'[h] = Len(cells) + 1
      /\ \A k \in Holder : k # h => ptr'[k] = ptr[k]
  BY <1>1, <1>2
<1>4. TypeInv'
  BY <1>1, <1>2, <1>3 DEF TypeInv
<1>5. ASSUME NEW k \in Holder, k # h
      PROVE  Read(k)' = Read(k)
  <2>1. ptr'[k] = ptr[k] /\ ptr[k] \in Nat /\ ptr[k] <= Len(cells)
    BY <1>1, <1>3, <1>5
  <2>2. ptr[k] # 0 => cells'[ptr[k]] = cells[ptr[k]]
    BY <1>2, <2>1
  <2>3. QED
    BY <2>1, <2>2 DEF Read, IsNil, NilPtr
<1>6. Read(h)' = n
  <2>1. Len(cells) + 1 # 0
    BY <1>2
  <2>2. QED
    BY <1>2, <1>3, <2>1 DEF Read, IsNil, NilPtr
<1>7. QED
  BY <1>4, <1>5, <1>6 DEF Spares

LEMMA PointReads ==
  ASSUME TypeInv, NEW h \in Holder, NEW p \in Nat, p <= Len(cells), Point(h, p)
  PROVE  /\ Spares(h)
         /\ p = NilPtr => Read(h)' = Nil
         /\ p # NilPtr => Read(h)' = cells[p]
<1>1. /\ cells' = cells /\ cells \in Seq(Number)
      /\ ptr' \in [Holder -> Nat] /\ ptr'[h] = p
      /\ \A k \in Holder : k # h => ptr'[k] = ptr[k]
      /\ \A k \in Holder : ptr[k] <= Len(cells)
  BY DEF Point, TypeInv
<1>2. TypeInv'
  BY <1>1 DEF TypeInv
<1>3. \A k \in Holder : k # h => Read(k)' = Read(k)
  BY <1>1 DEF Read, IsNil
<1>4. (p = NilPtr => Read(h)' = Nil) /\ (p # NilPtr => Read(h)' = cells[p])
  BY <1>1 DEF Read, IsNil
<1>5. QED
  BY <1>2, <1>3, <1>4 DEF Spares

LEMMA ShareReads ==
  ASSUME TypeInv, NEW h \in Holder, NEW g \in Holder, Share(h, g)
  PROVE  Spares(h) /\ Read(h)' = Read(g)
<1>1. ptr[g] \in Nat /\ ptr[g] <= Len(cells) /\ Point(h, ptr[g])
  BY DEF TypeInv, Share
<1>2. /\ Spares(h)
      /\ ptr[g] = NilPtr => Read(h)' = Nil
      /\ ptr[g] # NilPtr => Read(h)' = cells[ptr[g]]
  BY <1>1, PointReads
<1>3. QED
  BY <1>2 DEF Read, IsNil

LEMMA LeaveReads ==
  ASSUME TypeInv, NEW h \in Holder, UNCHANGED <<cells, ptr>>
  PROVE  Spares(h) /\ Read(h)' = Read(h)
BY DEF Spares, TypeInv, Read, IsNil

LEMMA ReadType ==
  ASSUME TypeInv, NEW h \in Holder
  PROVE  /\ IsNil(h) => Read(h) = Nil
         /\ ~IsNil(h) => Read(h) \in Number
<1>1. ptr[h] \in Nat /\ ptr[h] <= Len(cells)
  BY DEF TypeInv
<1>2. ptr[h] # 0 => cells[ptr[h]] \in Number
  BY <1>1 DEF TypeInv
<1>3. QED
  BY <1>2 DEF Read, IsNil, NilPtr

-----------------------------------------------------------------------------
(* The decoders: a text is taken for its number or refused.                 *)
LEMMA SetStringReads ==
  ASSUME TypeInv, NEW h \in Holder, NEW t \in Text, SetString(h, t)
  PROVE  /\ Spares(h)
         /\ t.rest[1] = "number" => Read(h)' = t.rest[2] /\ ~failed'
<1>1. CASE t.rest[1] = "number"
  <2>1. t.rest[2] \in Number
    BY <1>1 DEF Text
  <2>2. Allocate(h, t.rest[2])
    BY <1>1 DEF SetString
  <2>3. ~failed'
    BY <2>2 DEF Allocate
  <2>4. QED
    BY <2>1, <2>2, <2>3, AllocateReads
<1>2. CASE t.rest[1] # "number"
  <2>1. Point(h, NilPtr)
    BY <1>2 DEF SetString
  <2>2. NilPtr \in Nat /\ NilPtr <= Len(cells)
    BY DEF NilPtr, TypeInv
  <2>3. QED
    BY <1>2, <2>1, <2>2, PointReads
<1>3. QED
  BY <1>1, <1>2

LEMMA PlainIsText ==
  /\ Plain(<<"junk">>) \in Text
  /\ \A n \in Number : /\ Plain(<<"number", n>>) \in Text
                       /\ Quoted(Plain(<<"number", n>>)) \in Text
  /\ Plain(<<"null">>) \in Text
BY DEF Plain, Quoted, Text

LEMMA ScanReads ==
  ASSUME TypeInv, NEW h \in Holder, NEW s \in Sources, Scan(h, s)
  PROVE  Spares(h)
<1>1. CASE s \in {<<"NULL">>, <<"other">>}
  <2>1. UNCHANGED <<cells, ptr>>
    BY <1>1 DEF Scan, Leave
  <2>2. QED
    BY <2>1, LeaveReads
<1>2. CASE \E n \in Number : s = <<"int64", n>>
  <2>1. PICK n \in Number : s = <<"int64", n>>
    BY <1>2
  <2>2. Allocate(h, n)
    BY <2>1 DEF Scan
  <2>3. QED
    BY <2>2, AllocateReads
<1>3. CASE \E t \in Text : s = <<"text", t>>
  <2>1. PICK t \in Text : s = <<"text", t>>
    BY <1>3
  <2>2. ScanText(h, t)
    BY <2>1 DEF Scan
  <2>3. QED
    BY <2>2, PlainIsText, SetStringReads DEF ScanText
<1>4. QED
  BY <1>1, <1>2, <1>3 DEF Sources

LEMMA UnmarshalReads ==
  ASSUME TypeInv, NEW h \in Holder, NEW t \in Text, UnmarshalJSON(h, t)
  PROVE  Spares(h)
<1>1. CASE Leave
  BY <1>1, LeaveReads DEF Leave
<1>2. CASE SetString(h, t)
  BY <1>2, SetStringReads
<1>3. QED
  BY <1>1, <1>2 DEF UnmarshalJSON

(* What Value and MarshalJSON write, Scan and UnmarshalJSON read.           *)
LEMMA ColumnReadBack ==
  ASSUME TypeInv, NEW h \in Holder, NEW g \in Holder, Scan(h, Value(g))
  PROVE  /\ Spares(h)
         /\ ~failed'
         /\ Read(h)' = IF IsNil(g) THEN Read(h) ELSE Read(g)
<1>1. CASE IsNil(g)
  <2>1. Leave
    BY <1>1 DEF Value, Scan
  <2>2. QED
    BY <1>1, <2>1, LeaveReads DEF Leave
<1>2. CASE ~IsNil(g)
  <2>1. PICK n \in Number : n = Read(g)
    BY <1>2, ReadType
  <2>2. Value(g) = <<"text", Plain(<<"number", n>>)>>
    BY <1>2, <2>1 DEF Value
  <2>3. ScanText(h, Plain(<<"number", n>>))
    BY <2>2 DEF Scan
  <2>4. SetString(h, Plain(<<"number", n>>))
    BY <2>3 DEF ScanText, Plain
  <2>5. QED
    BY <1>2, <2>1, <2>4, PlainIsText, SetStringReads DEF Plain
<1>3. QED
  BY <1>1, <1>2

LEMMA JSONReadBack ==
  ASSUME TypeInv, NEW h \in Holder, NEW g \in Holder,
         UnmarshalJSON(h, MarshalJSON(g))
  PROVE  /\ Spares(h)
         /\ ~failed'
         /\ Read(h)' = IF IsNil(g) THEN Read(h) ELSE Read(g)
<1>1. CASE IsNil(g)
  <2>1. Leave
    BY <1>1 DEF MarshalJSON, UnmarshalJSON, Plain
  <2>2. QED
    BY <1>1, <2>1, LeaveReads DEF Leave
<1>2. CASE ~IsNil(g)
  <2>1. PICK n \in Number : n = Read(g)
    BY <1>2, ReadType
  <2>2. MarshalJSON(g) = Quoted(Plain(<<"number", n>>))
    BY <1>2, <2>1 DEF MarshalJSON
  <2>3. Quoted(Plain(<<"number", n>>)).rest = <<"number", n>>
    BY DEF Quoted, Plain
  <2>4. SetString(h, Quoted(Plain(<<"number", n>>)))
    BY <2>2, <2>3 DEF UnmarshalJSON
  <2>5. QED
    BY <1>2, <2>1, <2>3, <2>4, PlainIsText, SetStringReads
<1>3. QED
  BY <1>1, <1>2

-----------------------------------------------------------------------------
(* Every operation spares all variables but its receiver.                   *)
LEMMA StepSpares ==
  ASSUME TypeInv, Next
  PROVE  \E h \in Holder : last'.to = h /\ Spares(h)
<1>1. ASSUME NEW h \in Holder, NEW g \in Holder,
             \/ New(h) \/ FromBigInt(h, g) \/ Copy(h, g) \/ Safer(h) \/ ToInt(h, g)
      PROVE  Spares(h)
  <2>1. CASE New(h)
    BY <2>1, AllocateReads DEF New
  <2>2. CASE FromBigInt(h, g)
    BY <2>2, ShareReads DEF FromBigInt
  <2>3. CASE Copy(h, g)
    BY <2>3, ShareReads, ReadType, AllocateReads DEF Copy
  <2>4. CASE Safer(h)
    BY <2>4, NumberAssumption, AllocateReads, LeaveReads DEF Safer, Leave
  <2>5. CASE ToInt(h, g)
    BY <2>5, NumberAssumption, AllocateReads, ShareReads DEF ToInt
  <2>6. QED
    BY <1>1, <2>1, <2>2, <2>3, <2>4, <2>5
<1>2. PICK h \in Holder, g \in Holder :
        \/ New(h) /\ Did("New", h, h)
        \/ FromBigInt(h, g) /\ Did("FromBigInt", h, g)
        \/ Copy(h, g) /\ Did("Copy", h, g)
        \/ Safer(h) /\ Did("Safer", h, h)
        \/ ToInt(h, g) /\ Did("ToInt", h, g)
        \/ \E s \in Sources : Scan(h, s) /\ Did("Scan", h, h)
        \/ \E t \in Text : UnmarshalJSON(h, t) /\ Did("UnmarshalJSON", h, h)
        \/ Scan(h, Value(g)) /\ Did("written and read", h, g)
        \/ UnmarshalJSON(h, MarshalJSON(g)) /\ Did("written and read", h, g)
  BY DEF Next
<1>3. last'.to = h
  <2>1. \A name, x : Did(name, h, x) => last'.to = h
    BY DEF Did
  <2>2. QED
    BY <1>2, <2>1
<1>4. Spares(h)
  BY <1>1, <1>2, ScanReads, UnmarshalReads, ColumnReadBack, JSONReadBack
<1>5. QED
  BY <1>3, <1>4

LEMMA TypeInvInductive == TypeInv /\ [Next]_vars => TypeInv'
<1> SUFFICES ASSUME TypeInv, [Next]_vars PROVE TypeInv'
  OBVIOUS
<1>1. CASE Next
  BY <1>1, StepSpares DEF Spares
<1>2. CASE UNCHANGED vars
  BY <1>2 DEF vars, TypeInv
<1>3. QED
  BY <1>1, <1>2

LEMMA TypeInvInitially == Init => TypeInv
<1> SUFFICES ASSUME Init PROVE TypeInv
  OBVIOUS
<1>1. cells \in Seq(Number) /\ Len(cells) = 0 /\ ptr = [h \in Holder |-> 0]
  BY DEF Init, NilPtr
<1>2. QED
  BY <1>1 DEF TypeInv

(* Value with Scan and MarshalJSON with UnmarshalJSON lose nothing: what is *)
(* written is read back, for every number that is held.                     *)
THEOREM WrittenIsReadBack == Spec => ReadBack
<1>1. ASSUME TypeInv, Next, NEW h \in Holder, NEW g \in Holder,
             last' = [op |-> "written and read", to |-> h, of |-> g]
      PROVE  ~failed' /\ Read(h)' = IF IsNil(g) THEN Read(h) ELSE Read(g)
  <2>1. last'.op = "written and read" /\ last'.to = h /\ last'.of = g
    BY <1>1
  <2>2. Scan(h, Value(g)) \/ UnmarshalJSON(h, MarshalJSON(g))
    BY <1>1, <2>1 DEF Next, Did
  <2>3. QED
    BY <1>1, <2>2, ColumnReadBack, JSONReadBack
<1>2. TypeInv /\ [Next]_vars =>
    [\A h, g \in Holder :
       last' = [op |-> "written and read", to |-> h, of |-> g] =>
         /\ ~failed'
         /\ Read(h)' = IF IsNil(g) THEN Read(h) ELSE Read(g)]_vars
  BY <1>1
<1>3. QED
  BY <1>2, TypeInvInitially, TypeInvInductive, PTL DEF Spec, ReadBack
=============================================================================
