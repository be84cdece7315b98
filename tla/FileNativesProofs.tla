------------------------- MODULE FileNativesProofs -------------------------
(***************************************************************************)
(* Proofs about the file functions: for any names, bytes, texts and limits *)
(* of descriptors, reads are exact unless disturbed, return unwritten      *)
(* memory only if the file shrank, and only listings leak descriptors.     *)
(***************************************************************************)
EXTENDS FileNatives, SequenceTheorems, WellFoundedInduction, TLAPS

-----------------------------------------------------------------------------
(* Strings.                                                                *)

\* Every nonempty set of numbers has a least one.
LEMMA Least ==
  ASSUME NEW S \in SUBSET Nat, S # {}
  PROVE  \E i \in S : \A j \in S : i <= j
<1> DEFINE R == OpToRel(<, Nat)
<1>1. IsWellFoundedOn(R, Nat)
  BY NatLessThanWellFounded
<1>2. R = {ss \in Nat \X Nat : ss[1] < ss[2]}
  BY DEF OpToRel
<1> HIDE DEF R
<1>3. S \subseteq Nat
  OBVIOUS
<1>4. \E i \in S : \A j \in S : ~(<<j, i>> \in R)
  BY <1>1, <1>3, WFMin
<1>5. ASSUME NEW i \in Nat, NEW j \in Nat, <<j, i>> \notin R
      PROVE  i <= j
  <2>1. <<j, i>> \in R <=> j < i
    BY <1>2
  <2> QED BY <1>5, <2>1
<1> QED BY <1>3, <1>4, <1>5

\* A string cut at its first NUL is a beginning of it.
LEMMA CutType ==
  ASSUME NEW S, NEW s \in Seq(S)
  PROVE  /\ CutAtNul(s) \in Seq(S)
         /\ Len(CutAtNul(s)) <= Len(s)
         /\ \A i \in 1..Len(CutAtNul(s)) : CutAtNul(s)[i] = s[i]
<1> DEFINE nuls == {i \in 1..Len(s) : s[i] = Nul}
           m == CHOOSE i \in nuls : \A j \in nuls : i <= j
<1>1. CASE nuls = {}
  BY <1>1 DEF CutAtNul
<1>2. CASE nuls # {}
  <2>1. \E i \in nuls : \A j \in nuls : i <= j
    <3>1. nuls \in SUBSET Nat
      OBVIOUS
    <3> QED BY <1>2, <3>1, Least
  <2>2. m \in nuls
    BY <2>1
  <2>3. CutAtNul(s) = SubSeq(s, 1, m - 1) /\ m \in 1..Len(s)
    BY <1>2, <2>2 DEF CutAtNul
  <2> HIDE DEF m
  <2>4. \A i \in 1..(m - 1) : s[i] \in S
    BY <2>3
  <2>5. /\ SubSeq(s, 1, m - 1) \in Seq(S)
        /\ Len(SubSeq(s, 1, m - 1)) = IF 1 <= m - 1 THEN m - 1 - 1 + 1 ELSE 0
        /\ \A i \in 1..(m - 1 - 1 + 1) : SubSeq(s, 1, m - 1)[i] = s[1 + i - 1]
    BY <2>3, <2>4, SubSeqProperties
  <2> QED BY <2>3, <2>5
<1> QED BY <1>1, <1>2

\* A string without NUL is not cut.
LEMMA CutNothing ==
  ASSUME NEW s, \A i \in 1..Len(s) : s[i] # Nul
  PROVE  CutAtNul(s) = s
BY DEF CutAtNul

\* What a script's text becomes is bytes.
LEMMA BackType ==
  ASSUME NEW t \in Seq(Chars)
  PROVE  Back(t) \in Seq(Bytes) /\ Len(Back(t)) \in Nat
<1> DEFINE low == [i \in 1..Len(t) |-> Low[t[i]]]
<1>1. \A i \in 1..Len(t) : Low[t[i]] \in Bytes
  BY FileAssumption
<1>2. low \in Seq(Bytes)
  BY <1>1
<1>3. CutAtNul(low) \in Seq(Bytes)
  BY <1>2, CutType
<1> QED BY <1>3 DEF Back

\* A portable text becomes its own bytes.
LEMMA BackPortable ==
  ASSUME NEW t \in Seq(Chars), Portable(t)
  PROVE  Back(t) = t /\ CutAtNul(t) = t
<1> DEFINE low == [i \in 1..Len(t) |-> Low[t[i]]]
<1>1. \A i \in 1..Len(t) : t[i] \in Bytes /\ t[i] # Nul /\ Low[t[i]] = t[i]
  BY FileAssumption DEF Portable
<1>2. low \in Seq(Chars) /\ Len(low) = Len(t) /\ \A i \in 1..Len(t) : low[i] = t[i]
  BY <1>1 DEF Chars
<1>3. low = t
  BY <1>2, SeqEqual
<1>4. CutAtNul(t) = t
  BY <1>1, CutNothing
<1> QED BY <1>3, <1>4 DEF Back

\* And the cut string has no NUL.
LEMMA CutHasNoNul ==
  ASSUME NEW S, NEW s \in Seq(S)
  PROVE  \A i \in 1..Len(CutAtNul(s)) : CutAtNul(s)[i] # Nul
<1> DEFINE nuls == {i \in 1..Len(s) : s[i] = Nul}
           m == CHOOSE i \in nuls : \A j \in nuls : i <= j
<1>1. CASE nuls = {}
  BY <1>1 DEF CutAtNul
<1>2. CASE nuls # {}
  <2>1. \E i \in nuls : \A j \in nuls : i <= j
    <3>1. nuls \in SUBSET Nat
      OBVIOUS
    <3> QED BY <1>2, <3>1, Least
  <2>2. m \in nuls /\ \A j \in nuls : m <= j
    BY <2>1
  <2>3. CutAtNul(s) = SubSeq(s, 1, m - 1) /\ m \in 1..Len(s)
    BY <1>2, <2>2 DEF CutAtNul
  <2>4. \A j \in nuls : m <= j
    BY <2>2
  <2> HIDE DEF m
  <2>5. Len(CutAtNul(s)) = m - 1
    BY <2>3, SubSeqProperties
  <2>6. SUFFICES ASSUME NEW i \in 1..(m - 1) PROVE s[i] # Nul
    BY <2>5, CutType
  <2>7. i \in 1..Len(s) /\ ~(m <= i)
    BY <2>3
  <2> QED BY <2>4, <2>7
<1> QED BY <1>1, <1>2

\* What crosses from C++ to the script is cut once: caster<std::string>::tojs
\* and back keep a string that has been through either of them.
THEOREM StringsAreCutOnce ==
  ASSUME NEW s \in Seq(Bytes)
  PROVE  /\ ToJs(ToJs(s)) = ToJs(s)
         /\ Back(ToJs(s)) = ToJs(s)
<1> DEFINE c == CutAtNul(s)
           low == [i \in 1..Len(c) |-> Low[c[i]]]
<1>1. c \in Seq(Bytes) /\ \A i \in 1..Len(c) : c[i] # Nul
  BY CutType, CutHasNoNul
<1>2. CutAtNul(c) = c
  BY <1>1, CutNothing
<1> HIDE DEF c
<1>3. \A i \in 1..Len(c) : Low[c[i]] = c[i] /\ c[i] \in Bytes
  BY <1>1, FileAssumption
<1>4. low \in Seq(Bytes) /\ Len(low) = Len(c) /\ \A i \in 1..Len(c) : low[i] = c[i]
  BY <1>1, <1>3
<1>5. low = c
  BY <1>1, <1>4, SeqEqual
<1> QED BY <1>2, <1>5 DEF ToJs, Back, c

\* A text that goes to C++ and returns to the script is the same exactly if it
\* is portable: every NUL cuts it and every wide character is another one then.
THEOREM OnlyPortableTextsReturn ==
  ASSUME NEW t \in Seq(Chars)
  PROVE  ToJs(Back(t)) = t <=> Portable(t)
<1> DEFINE low == [i \in 1..Len(t) |-> Low[t[i]]]
<1>1. low \in Seq(Bytes) /\ Back(t) = CutAtNul(low)
  <2>1. \A i \in 1..Len(t) : Low[t[i]] \in Bytes
    BY FileAssumption
  <2> QED BY <2>1 DEF Back
<1> HIDE DEF low
<1>2. /\ Back(t) \in Seq(Bytes)
      /\ \A i \in 1..Len(Back(t)) : Back(t)[i] # Nul
  BY <1>1, CutType, CutHasNoNul
<1>3. ToJs(Back(t)) = Back(t)
  BY <1>2, CutNothing DEF ToJs
<1>4. ASSUME Back(t) = t PROVE Portable(t)
  <2>1. \A i \in 1..Len(t) : t[i] \in Bytes /\ t[i] # Nul
    BY <1>2, <1>4
  <2> QED BY <2>1 DEF Portable
<1> QED BY <1>3, <1>4, BackPortable

\* Nothing is left of a buffer that was filled.
LEMMA FilledBuffer ==
  ASSUME NEW S, NEW buf \in Seq(S), NEW t \in {[i \in 1..n |-> Junk] : n \in 0..0}
  PROVE  buf \o t = buf
<1>1. t = [i \in 1..0 |-> Junk]
  OBVIOUS
<1>2. t = <<>>
  BY <1>1
<1> QED BY <1>2, ConcatEmptySeq

\* What is written over a file has bytes only.
LEMMA OverlayType ==
  ASSUME NEW s \in Seq(Bytes), NEW pos \in Nat, NEW more \in Seq(Bytes)
  PROVE  Overlay(s, pos, more) \in Seq(Bytes)
<1> DEFINE n == IF pos + Len(more) > Len(s) THEN pos + Len(more) ELSE Len(s)
           o == [i \in 1..n |-> IF i \in (pos + 1)..(pos + Len(more)) THEN more[i - pos]
                                ELSE IF i <= Len(s) THEN s[i] ELSE Nul]
<1>1. n \in Nat
  OBVIOUS
<1> HIDE DEF n
<1>2. \A i \in 1..n : o[i] \in Bytes
  <2> TAKE i \in 1..n
  <2>1. CASE i \in (pos + 1)..(pos + Len(more))
    BY <2>1, <1>1
  <2>2. CASE i \notin (pos + 1)..(pos + Len(more)) /\ i <= Len(s)
    BY <2>2, <1>1
  <2>3. CASE i \notin (pos + 1)..(pos + Len(more)) /\ ~(i <= Len(s))
    BY <2>3, <1>1, FileAssumption
  <2> QED BY <2>1, <2>2, <2>3
<1>3. o \in [1..n -> Bytes]
  BY <1>2
<1>4. \A f \in [1..n -> Bytes] : f \in Seq(Bytes)
  BY <1>1
<1>5. Overlay(s, pos, more) = o
  BY DEF Overlay, n
<1> HIDE DEF o
<1> QED BY <1>3, <1>4, <1>5

\* Bytes appended at the end of a file.
LEMMA OverlayAppends ==
  ASSUME NEW s \in Seq(Bytes), NEW more \in Seq(Bytes)
  PROVE  /\ Len(Overlay(s, Len(s), more)) = Len(s) + Len(more)
         /\ \A i \in 1..(Len(s) + Len(more)) :
              Overlay(s, Len(s), more)[i] = IF i <= Len(s) THEN s[i] ELSE more[i - Len(s)]
<1> DEFINE n == Len(s) + Len(more)
<1>1. n \in Nat /\ (IF Len(s) + Len(more) > Len(s) THEN Len(s) + Len(more) ELSE Len(s)) = n
  OBVIOUS
<1>2. Overlay(s, Len(s), more) =
        [i \in 1..n |-> IF i \in (Len(s) + 1)..n THEN more[i - Len(s)]
                        ELSE IF i <= Len(s) THEN s[i] ELSE Nul]
  BY <1>1 DEF Overlay
<1> HIDE DEF n
<1>3. Len(Overlay(s, Len(s), more)) = n
  BY <1>1, <1>2
<1>4. ASSUME NEW i \in 1..n
      PROVE  Overlay(s, Len(s), more)[i] = IF i <= Len(s) THEN s[i] ELSE more[i - Len(s)]
  <2>1. i \in (Len(s) + 1)..n <=> ~(i <= Len(s))
    BY <1>1
  <2> QED BY <1>2, <2>1
<1> QED BY <1>3, <1>4 DEF n

-----------------------------------------------------------------------------
(* The call in progress.                                                   *)

\* What the call has open is a file.
LEMMA ContentType ==
  ASSUME TypeOK, CallHolds
  PROVE  Content \in Seq(Bytes) /\ Len(Content) \in Nat
BY DEF TypeOK, CallHolds, Content, Call

LEMMA CallTypes ==
  ASSUME NEW p \in Paths
  PROVE  /\ Idle \in Call
         /\ Begin("opened", p) \in Call
         /\ \A t \in Texts : [Begin("writing", p) EXCEPT !.text = t] \in Call
<1>1. <<>> \in Seq(Bytes) /\ <<>> \in Seq(Chars) /\ Texts \subseteq Seq(Chars)
  BY FileAssumption
<1>2. Idle \in Call
  BY <1>1 DEF Idle, Call
<1>3. Begin("opened", p) \in Call /\ Begin("writing", p) \in Call
  BY <1>2 DEF Begin, Call
<1>4. ASSUME NEW c \in Call, NEW t \in Texts
      PROVE  [c EXCEPT !.text = t] \in Call
  BY <1>1 DEF Call
<1> QED BY <1>2, <1>3, <1>4

LEMMA NothingType == Nothing \in [text : Seq(Bytes \cup {Junk}), names : SUBSET Paths]
<1>1. <<>> \in Seq(Bytes \cup {Junk})
  OBVIOUS
<1> QED BY <1>1 DEF Nothing, Answer

LEMMA Initially == Init => IInv
<1> SUFFICES ASSUME Init PROVE IInv
  OBVIOUS
<1>1. Idle \in Call /\ Idle.op = "idle" /\ ~Idle.linked
  BY FileAssumption, EmptySeq DEF Idle, Call
<1>2. TypeOK
  <2>1. <<>> \in Seq(Bytes)
    OBVIOUS
  <2>2. data \in [Paths -> Seq(Bytes)] /\ kind \in [Paths -> Kinds] /\ author \in [Paths -> Texts \cup {Null}]
    BY <2>1 DEF Init, Kinds
  <2> QED BY <1>1, <2>2, NothingType DEF Init, TypeOK
<1>3. OnlyListingsLeak /\ CallHolds /\ ReadingHolds /\ WritingHolds /\ ListingHolds
  BY <1>1 DEF Init, OnlyListingsLeak, CallHolds, ReadingHolds, WritingHolds, ListingHolds
<1>4. AuthorHolds
  BY FileAssumption DEF Init, AuthorHolds
<1> QED BY <1>2, <1>3, <1>4 DEF IInv

\* A call that ends, with the files as they are.
LEMMA EndStep ==
  ASSUME IInv, call' = Idle, UNCHANGED <<kind, data, author>>,
         listings' = listings, OnlyListingsLeak', got' \in [text : Seq(Bytes \cup {Junk}), names : SUBSET Paths],
         UNCHANGED <<disturbed, shrunk, fault>>
  PROVE  IInv'
<1>1. Idle \in Call /\ Idle.op = "idle" /\ ~Idle.linked
  BY FileAssumption, EmptySeq DEF Idle, Call
<1>2. OnlyListingsLeak' /\ CallHolds' /\ ReadingHolds' /\ WritingHolds' /\ ListingHolds'
  BY <1>1 DEF CallHolds, ReadingHolds, WritingHolds, ListingHolds
<1>3. open' \in Nat
  BY <1>1 DEF IInv, TypeOK, OnlyListingsLeak
<1>4. TypeOK'
  BY <1>1, <1>3 DEF IInv, TypeOK
<1>5. AuthorHolds'
  BY DEF IInv, AuthorHolds
<1> QED BY <1>2, <1>4, <1>5 DEF IInv

\* A call that is in progress or begins, with the files as they are.
LEMMA StopStep ==
  ASSUME IInv, NEW reason \in {"null", "memory", "stopped", "exit"}, Fails(reason)
  PROVE  IInv'
<1>1. TypeOK' /\ OnlyListingsLeak'
  BY DEF IInv, TypeOK, Fails, OnlyListingsLeak
<1>2. CallHolds' /\ ReadingHolds' /\ WritingHolds' /\ ListingHolds' /\ AuthorHolds'
  BY DEF IInv, Fails, CallHolds, ReadingHolds, WritingHolds, ListingHolds, AuthorHolds, Content
<1> QED BY <1>1, <1>2 DEF IInv

\* A call that has opened its file.
LEMMA OpensType ==
  ASSUME TypeOK, NEW c \in Call, Opens(c)
  PROVE  /\ open' \in Nat /\ call' \in Call
         /\ got' \in [text : Seq(Bytes \cup {Junk}), names : SUBSET Paths]
         /\ disturbed' \in BOOLEAN /\ shrunk' \in BOOLEAN
         /\ listings' \in Nat /\ fault' \in {"none", "null", "memory", "stopped", "exit"}
<1>1. call' = c /\ got' = Nothing /\ open' = open + 1 /\ disturbed' = FALSE /\ shrunk' = FALSE
      /\ listings' = listings /\ fault' = fault
  BY DEF Opens
<1>2. got' \in [text : Seq(Bytes \cup {Junk}), names : SUBSET Paths]
  BY <1>1, NothingType
<1>3. open' \in Nat /\ call' \in Call /\ listings' \in Nat
      /\ fault' \in {"none", "null", "memory", "stopped", "exit"}
  BY <1>1 DEF TypeOK
<1>4. disturbed' \in BOOLEAN /\ shrunk' \in BOOLEAN
  BY <1>1
<1> QED BY <1>2, <1>3, <1>4

-----------------------------------------------------------------------------
(* Reading.                                                                *)

LEMMA ReadFileStep ==
  ASSUME IInv, NEW p \in Paths, ReadFile(p)
  PROVE  IInv'
<1>1. CASE kind[p] = "file" /\ Opens(Begin("opened", p)) /\ UNCHANGED files
  <2> DEFINE c == Begin("opened", p)
  <2>1. c \in Call /\ c.op = "opened" /\ c.path = p /\ c.buf = <<>>
    BY CallTypes DEF Begin, Idle
  <2>2. call.op = "idle"
    BY DEF ReadFile, Ready
  <2> HIDE DEF c
  <2>3. TypeOK'
    <3>1. kind' = kind /\ data' = data /\ author' = author /\ Opens(c)
      BY <1>1 DEF files, c
    <3> QED BY <2>1, <3>1, OpensType DEF IInv, TypeOK
  <2>4. OnlyListingsLeak' /\ CallHolds' /\ ReadingHolds' /\ WritingHolds' /\ ListingHolds'
    BY <1>1, <2>1, <2>2 DEF IInv, TypeOK, Opens, OnlyListingsLeak, CallHolds, ReadingHolds,
       WritingHolds, ListingHolds, c
  <2>5. AuthorHolds'
    BY <1>1 DEF IInv, AuthorHolds, files
  <2> QED BY <2>3, <2>4, <2>5 DEF IInv
<1>2. CASE Fails("memory") \/ Fails("null")
  BY <1>2, StopStep
<1>3. CASE Returns(Nothing)
  <2>1. TypeOK' /\ OnlyListingsLeak'
    BY <1>3 DEF IInv, TypeOK, Returns, OnlyListingsLeak, Nothing, Answer
  <2>2. CallHolds' /\ ReadingHolds' /\ WritingHolds' /\ ListingHolds' /\ AuthorHolds'
    BY <1>3 DEF IInv, Returns, CallHolds, ReadingHolds, WritingHolds, ListingHolds, AuthorHolds, Content
  <2> QED BY <2>1, <2>2 DEF IInv
<1> QED BY <1>1, <1>2, <1>3 DEF ReadFile

LEMMA MeasureStep ==
  ASSUME IInv, Measure
  PROVE  IInv'
<1> USE DEF Measure
<1>1. Len(Content) \in Nat
  BY ContentType DEF IInv
<1>2. call' \in Call /\ call'.op = "reading" /\ call'.size = Len(Content) /\ call'.buf = <<>>
      /\ call'.linked = call.linked /\ call'.path = call.path /\ call'.rest = call.rest
  BY <1>1 DEF IInv, TypeOK, CallHolds, Call
<1>3. Content' = Content
  BY <1>2 DEF Content
<1>4. TypeOK'
  BY <1>2 DEF IInv, TypeOK
<1>5. OnlyListingsLeak' /\ CallHolds' /\ WritingHolds' /\ ListingHolds' /\ AuthorHolds'
  BY <1>2 DEF IInv, OnlyListingsLeak, CallHolds, WritingHolds, ListingHolds, AuthorHolds
<1>6. ReadingHolds'
  BY <1>1, <1>2, <1>3 DEF ReadingHolds
<1> QED BY <1>4, <1>5, <1>6 DEF IInv

LEMMA FetchStep ==
  ASSUME IInv, NEW k \in Nat, Fetch(k)
  PROVE  IInv'
<1> DEFINE n == Len(call.buf)
           more == SubSeq(Content, n + 1, n + k)
<1>1. Content \in Seq(Bytes) /\ call.buf \in Seq(Bytes) /\ call.size \in Nat /\ n \in Nat
  BY ContentType DEF IInv, TypeOK, Call
<1>2. n + k <= call.size /\ n + k <= Len(Content) /\ call.op = "reading"
  BY DEF Fetch
<1>3. /\ more \in Seq(Bytes)
      /\ Len(more) = k
      /\ \A i \in 1..k : more[i] = Content[n + i]
  <2>1. \A i \in (n + 1)..(n + k) : Content[i] \in Bytes
    BY <1>1, <1>2
  <2> HIDE DEF n
  <2>2. /\ more \in Seq(Bytes)
        /\ Len(more) = IF n + 1 <= n + k THEN n + k - (n + 1) + 1 ELSE 0
        /\ \A i \in 1..(n + k - (n + 1) + 1) : more[i] = Content[n + 1 + i - 1]
    BY <1>1, <2>1, SubSeqProperties
  <2> QED BY <1>1, <2>2
<1>4. call' = [call EXCEPT !.buf = call.buf \o more]
  BY DEF Fetch
<1> HIDE DEF more
<1>5. /\ call.buf \o more \in Seq(Bytes)
      /\ Len(call.buf \o more) = n + k
      /\ \A i \in 1..(n + k) : (call.buf \o more)[i] = IF i <= n THEN call.buf[i] ELSE more[i - n]
  BY <1>1, <1>3, ConcatProperties
<1>6. call' \in Call /\ call'.op = "reading" /\ call'.buf = call.buf \o more
      /\ call'.size = call.size
      /\ call'.linked = call.linked /\ call'.path = call.path /\ call'.rest = call.rest
  BY <1>2, <1>4, <1>5 DEF IInv, TypeOK, Call
<1>7. Content' = Content
  BY <1>6 DEF Content, Fetch
<1>8. TypeOK'
  BY <1>6 DEF IInv, TypeOK, Fetch
<1>9. OnlyListingsLeak' /\ CallHolds' /\ WritingHolds' /\ ListingHolds' /\ AuthorHolds'
  BY <1>2, <1>6 DEF IInv, OnlyListingsLeak, CallHolds, WritingHolds, ListingHolds, AuthorHolds, Fetch
<1>10. ReadingHolds'
  <2>1. UNCHANGED <<disturbed, shrunk>>
    BY DEF Fetch
  <2>2. ~shrunk => call.size <= Len(Content)
    BY <1>2 DEF IInv, ReadingHolds
  <2>3. ASSUME ~disturbed
        PROVE  call.size = Len(Content) /\ \A i \in 1..(n + k) : (call.buf \o more)[i] = Content[i]
    <3>1. call.size = Len(Content) /\ \A i \in 1..n : call.buf[i] = Content[i]
      BY <2>3, <1>2 DEF IInv, ReadingHolds
    <3>2. ASSUME NEW i \in 1..(n + k), ~(i <= n)
          PROVE  more[i - n] = Content[i]
      <4> HIDE DEF n
      <4>1. i - n \in 1..k /\ n + (i - n) = i
        BY <1>1, <3>2
      <4> QED BY <1>3, <4>1
    <3> QED BY <1>1, <1>5, <3>1, <3>2
  <2> QED BY <1>2, <1>5, <1>6, <1>7, <2>1, <2>2, <2>3 DEF ReadingHolds
<1> QED BY <1>8, <1>9, <1>10 DEF IInv

\* A read that ends returns its bytes if the file was not disturbed, and no
\* unwritten memory if it did not shrink.
LEMMA ReadEnds ==
  ASSUME IInv, FinishRead
  PROVE  /\ got'.text \in Seq(Bytes \cup {Junk}) /\ got'.names = {}
         /\ ~disturbed => got'.text = CutAtNul(Content)
         /\ ~shrunk => got'.text \in Seq(Bytes)
<1>1. PICK t \in Unfilled : got' = Answer(ToJs(call.buf \o t), {})
  BY DEF FinishRead
<1>2. Content \in Seq(Bytes) /\ call.buf \in Seq(Bytes) /\ call.size \in Nat
      /\ Len(call.buf) \in Nat /\ Len(Content) \in Nat
  BY ContentType DEF IInv, TypeOK, Call
<1>3. got'.text = CutAtNul(call.buf \o t) /\ got'.names = {}
  BY <1>1 DEF Answer, ToJs
<1>4. t \in Seq({Junk})
  BY <1>2 DEF Unfilled
<1>5. call.buf \o t \in Seq(Bytes \cup {Junk})
  BY <1>2, <1>4
<1>6. got'.text \in Seq(Bytes \cup {Junk})
  BY <1>3, <1>5, CutType
<1>7. Len(call.buf) <= call.size /\ EndOfFile /\ call.op = "reading"
  BY DEF IInv, ReadingHolds, FinishRead
<1>8. ASSUME ~shrunk \/ ~disturbed
      PROVE  call.buf \o t = call.buf /\ Len(call.buf) = call.size
  <2>1. call.size <= Len(Content)
    BY <1>2, <1>7, <1>8 DEF IInv, ReadingHolds
  <2>2. Len(call.buf) = call.size
    BY <1>2, <1>7, <2>1 DEF EndOfFile
  <2>3. t \in {[i \in 1..n |-> Junk] : n \in 0..0}
    BY <1>2, <2>2 DEF Unfilled
  <2> QED BY <1>2, <2>2, <2>3, FilledBuffer
<1>9. ASSUME ~disturbed
      PROVE  got'.text = CutAtNul(Content)
  <2>1. call.size = Len(Content) /\ \A i \in 1..Len(call.buf) : call.buf[i] = Content[i]
    BY <1>7, <1>9 DEF IInv, ReadingHolds
  <2>2. call.buf = Content
    BY <1>2, <1>8, <1>9, <2>1, SeqEqual
  <2> QED BY <1>3, <1>8, <1>9, <2>2
<1>10. ASSUME ~shrunk
       PROVE  got'.text \in Seq(Bytes)
  <2>1. call.buf \in Seq(Bytes) /\ got'.text = CutAtNul(call.buf)
    BY <1>2, <1>3, <1>8, <1>10
  <2> QED BY <2>1, CutType
<1> QED BY <1>3, <1>6, <1>9, <1>10

LEMMA FinishReadStep ==
  ASSUME IInv, FinishRead
  PROVE  IInv'
<1>1. got' \in [text : Seq(Bytes \cup {Junk}), names : SUBSET Paths]
  <2>1. PICK t \in Unfilled : got' = Answer(ToJs(call.buf \o t), {})
    BY DEF FinishRead
  <2>2. got' = [text |-> got'.text, names |-> got'.names]
    BY <2>1 DEF Answer
  <2> QED BY <2>2, ReadEnds
<1>2. OnlyListingsLeak'
  BY DEF IInv, TypeOK, OnlyListingsLeak, FinishRead, Close, Idle
<1> QED BY <1>1, <1>2, EndStep DEF FinishRead

-----------------------------------------------------------------------------
(* Writing.                                                                *)

LEMMA WriteFileStep ==
  ASSUME IInv, NEW p \in Paths, NEW t \in Texts, WriteFile(p, t)
  PROVE  IInv'
<1> DEFINE c == [Begin("writing", p) EXCEPT !.text = t]
<1>1. CASE Fails("null")
  BY <1>1, StopStep
<1>2. CASE Opens(c) /\ Filled(p, <<>>, Null)
  <2>1. c \in Call /\ c.op = "writing" /\ c.path = p /\ c.text = t /\ c.pos = 0 /\ c.linked
    BY CallTypes DEF Begin, Idle
  <2>2. call.op = "idle" /\ ~call.linked
    BY DEF IInv, CallHolds, WriteFile, Ready
  <2> HIDE DEF c
  <2>3. /\ kind' = [kind EXCEPT ![p] = "file"]
        /\ data' = [data EXCEPT ![p] = <<>>]
        /\ author' = [author EXCEPT ![p] = Null]
        /\ call' = c /\ open' = open + 1 /\ listings' = listings
    BY <1>2 DEF Filled, Opens
  <2>4. kind' \in [Paths -> Kinds] /\ data' \in [Paths -> Seq(Bytes)]
        /\ author' \in [Paths -> Texts \cup {Null}]
    BY <2>3 DEF IInv, TypeOK, Kinds
  <2>5. TypeOK'
    BY <1>2, <2>1, <2>4, OpensType DEF IInv, TypeOK
  <2>6. OnlyListingsLeak' /\ CallHolds' /\ ReadingHolds' /\ ListingHolds'
    BY <2>1, <2>2, <2>3 DEF IInv, TypeOK, OnlyListingsLeak, CallHolds, ReadingHolds, ListingHolds
  <2>7. WritingHolds'
    <3>1. t \in Seq(Chars) /\ Len(Back(t)) \in Nat
      BY FileAssumption, BackType
    <3>2. kind'[p] = "file" /\ author'[p] = Null /\ data'[p] = <<>>
      BY <2>3 DEF IInv, TypeOK
    <3> QED BY <2>1, <2>3, <3>1, <3>2 DEF WritingHolds
  <2>8. AuthorHolds'
    BY <2>3 DEF IInv, TypeOK, AuthorHolds
  <2> QED BY <2>5, <2>6, <2>7, <2>8 DEF IInv
<1> QED BY <1>1, <1>2 DEF WriteFile

LEMMA DeliverStep ==
  ASSUME IInv, NEW k \in Nat, Deliver(k)
  PROVE  IInv'
<1> DEFINE b == Back(call.text)
           pos == call.pos
           more == SubSeq(b, pos + 1, pos + k)
           new == Overlay(Content, pos, more)
<1>1. /\ call.op = "writing" /\ pos + k <= Len(b) /\ pos \in Nat
      /\ b \in Seq(Bytes) /\ Len(b) \in Nat /\ Content \in Seq(Bytes)
  <2>1. call.text \in Seq(Chars)
    BY DEF IInv, TypeOK, Call
  <2> QED BY <2>1, BackType, ContentType DEF IInv, TypeOK, Call, Deliver
<1> HIDE DEF b, pos
<1>2. /\ more \in Seq(Bytes)
      /\ Len(more) = k
      /\ \A i \in 1..k : more[i] = b[pos + i]
  <2>1. \A i \in (pos + 1)..(pos + k) : b[i] \in Bytes
    BY <1>1
  <2>2. /\ more \in Seq(Bytes)
        /\ Len(more) = IF pos + 1 <= pos + k THEN pos + k - (pos + 1) + 1 ELSE 0
        /\ \A i \in 1..(pos + k - (pos + 1) + 1) : more[i] = b[pos + 1 + i - 1]
    BY <1>1, <2>1, SubSeqProperties
  <2> QED BY <1>1, <2>2
<1> HIDE DEF more
<1>3. new \in Seq(Bytes)
  BY <1>1, <1>2, OverlayType
<1>4. /\ call.linked => /\ data' = [data EXCEPT ![call.path] = new]
                        /\ call' = [call EXCEPT !.pos = pos + k]
      /\ ~call.linked => /\ call' = [call EXCEPT !.pos = pos + k, !.rest = new]
                         /\ data' = data
      /\ UNCHANGED <<kind, author, open, listings, got, disturbed, shrunk, fault>>
  BY DEF Deliver, b, pos, more
<1> HIDE DEF new
<1>5. /\ call' \in Call /\ call'.op = "writing" /\ call'.linked = call.linked
      /\ call'.path = call.path /\ call'.text = call.text /\ call'.pos = pos + k
  <2>1. call \in Call /\ pos + k \in Nat
    BY <1>1 DEF IInv, TypeOK
  <2>2. CASE call.linked
    <3>1. call' = [call EXCEPT !.pos = pos + k]
      BY <1>4, <2>2
    <3> QED BY <1>1, <2>1, <3>1 DEF Call
  <2>3. CASE ~call.linked
    <3>1. call' = [call EXCEPT !.pos = pos + k, !.rest = new]
      BY <1>4, <2>3
    <3> QED BY <1>1, <1>3, <2>1, <3>1 DEF Call
  <2> QED BY <2>2, <2>3
<1>6. TypeOK'
  <2>1. data' \in [Paths -> Seq(Bytes)]
    BY <1>3, <1>4 DEF IInv, TypeOK, CallHolds
  <2> QED BY <1>4, <1>5, <2>1 DEF IInv, TypeOK
<1>7. OnlyListingsLeak' /\ CallHolds' /\ ReadingHolds' /\ ListingHolds'
  BY <1>1, <1>4, <1>5 DEF IInv, OnlyListingsLeak, CallHolds, ReadingHolds, ListingHolds
<1>8. AuthorHolds'
  BY <1>1, <1>4 DEF IInv, TypeOK, AuthorHolds, WritingHolds, CallHolds
<1>9. WritingHolds'
  <2>1. /\ call.text \in Texts
        /\ call.linked => kind[call.path] = "file" /\ author[call.path] = Null /\ call.path \in Paths
    BY <1>1 DEF IInv, WritingHolds, CallHolds
  <2>2. ASSUME call.linked, ~disturbed
        PROVE  /\ Len(data'[call.path]) = pos + k
               /\ \A i \in 1..(pos + k) : data'[call.path][i] = b[i]
    <3>1. data'[call.path] = new /\ Content = data[call.path]
      BY <1>4, <2>1, <2>2 DEF IInv, TypeOK, Content
    <3>2. Len(Content) = pos /\ \A i \in 1..pos : Content[i] = b[i]
      BY <1>1, <2>2, <3>1 DEF IInv, WritingHolds, b, pos
    <3>3. /\ Len(new) = pos + k
          /\ \A i \in 1..(pos + k) : new[i] = IF i <= pos THEN Content[i] ELSE more[i - pos]
      BY <1>1, <1>2, <3>2, OverlayAppends DEF new
    <3>4. ASSUME NEW i \in 1..(pos + k)
          PROVE  new[i] = b[i]
      <4>1. CASE i <= pos
        BY <4>1, <1>1, <3>2, <3>3
      <4>2. CASE ~(i <= pos)
        <5>1. i - pos \in 1..k /\ pos + (i - pos) = i
          BY <4>2, <1>1
        <5> QED BY <4>2, <5>1, <1>2, <3>3
      <4> QED BY <4>1, <4>2
    <3> QED BY <3>1, <3>3, <3>4
  <2> QED BY <1>1, <1>4, <1>5, <2>1, <2>2 DEF WritingHolds, b
<1> QED BY <1>6, <1>7, <1>8, <1>9 DEF IInv

LEMMA FinishWriteStep ==
  ASSUME IInv, FinishWrite
  PROVE  IInv'
<1>1. Idle \in Call /\ Idle.op = "idle" /\ ~Idle.linked
  BY FileAssumption, EmptySeq DEF Idle, Call
<1>2. /\ call.op = "writing" /\ call' = Idle /\ open' = open - 1
      /\ UNCHANGED <<kind, data, listings, got, disturbed, shrunk, fault>>
  BY DEF FinishWrite, Close
<1>3. OnlyListingsLeak' /\ CallHolds' /\ ReadingHolds' /\ WritingHolds' /\ ListingHolds'
  BY <1>1, <1>2 DEF IInv, TypeOK, OnlyListingsLeak, CallHolds, ReadingHolds, WritingHolds, ListingHolds
<1>4. open' \in Nat
  BY <1>2 DEF IInv, TypeOK, OnlyListingsLeak
<1>5. CASE author' = author
  <2>1. TypeOK'
    BY <1>1, <1>2, <1>4, <1>5 DEF IInv, TypeOK
  <2>2. AuthorHolds'
    BY <1>2, <1>5 DEF IInv, AuthorHolds
  <2> QED BY <1>3, <2>1, <2>2 DEF IInv
<1>6. CASE /\ Delivered /\ call.linked /\ ~disturbed
           /\ author' = [author EXCEPT ![call.path] = call.text]
  <2>1. call.path \in Paths /\ call.text \in Texts /\ kind[call.path] = "file"
        /\ Len(data[call.path]) = call.pos /\ call.pos = Len(Back(call.text))
        /\ \A i \in 1..call.pos : data[call.path][i] = Back(call.text)[i]
    BY <1>2, <1>6 DEF IInv, CallHolds, WritingHolds, Delivered
  <2>2. data[call.path] = Back(call.text)
    <3>1. data[call.path] \in Seq(Bytes) /\ Back(call.text) \in Seq(Bytes)
      BY <2>1, FileAssumption, BackType DEF IInv, TypeOK
    <3> QED BY <2>1, <3>1, SeqEqual
  <2>3. author' \in [Paths -> Texts \cup {Null}]
    BY <1>6, <2>1 DEF IInv, TypeOK
  <2>4. TypeOK'
    BY <1>1, <1>2, <1>4, <2>3 DEF IInv, TypeOK
  <2>5. AuthorHolds'
    BY <1>2, <1>6, <2>1, <2>2 DEF IInv, TypeOK, AuthorHolds
  <2> QED BY <1>3, <2>4, <2>5 DEF IInv
<1> QED BY <1>5, <1>6 DEF FinishWrite

-----------------------------------------------------------------------------
(* Directories.                                                            *)

LEMMA MkDirStep ==
  ASSUME IInv, NEW p \in Paths, MkDir(p)
  PROVE  IInv'
<1>1. TypeOK'
  BY DEF IInv, TypeOK, Kinds, MkDir
<1>2. OnlyListingsLeak' /\ CallHolds' /\ ReadingHolds' /\ WritingHolds' /\ ListingHolds'
  BY DEF IInv, OnlyListingsLeak, CallHolds, ReadingHolds, WritingHolds, ListingHolds, MkDir, Ready
<1>3. AuthorHolds'
  BY DEF IInv, TypeOK, AuthorHolds, MkDir
<1> QED BY <1>1, <1>2, <1>3 DEF IInv

LEMMA UnlinkStep ==
  ASSUME IInv, NEW p \in Paths, Unlink(p)
  PROVE  IInv'
<1>1. TypeOK'
  BY EmptySeq DEF IInv, TypeOK, Kinds, Unlink
<1>2. OnlyListingsLeak' /\ CallHolds' /\ ReadingHolds' /\ WritingHolds' /\ ListingHolds'
  BY DEF IInv, OnlyListingsLeak, CallHolds, ReadingHolds, WritingHolds, ListingHolds, Unlink, Ready
<1>3. AuthorHolds'
  BY DEF IInv, TypeOK, AuthorHolds, Unlink
<1> QED BY <1>1, <1>2, <1>3 DEF IInv

LEMMA ReadDirStep ==
  ASSUME IInv, NEW d \in Paths \cup {Here}, ReadDir(d)
  PROVE  IInv'
<1>1. CASE Fails("stopped")
  BY <1>1, StopStep
<1>2. CASE /\ open' = open + 1 /\ listings' = listings + 1 /\ got' = Nothing
           /\ call' = [Idle EXCEPT !.op = "listing", !.path = d, !.steady = Entries(d)]
           /\ UNCHANGED <<kind, data, author, disturbed, shrunk, fault>>
  <2>1. call.op = "idle"
    BY DEF ReadDir, Ready
  <2>2. Entries(d) \subseteq Paths \cup Dots
    BY DEF Entries
  <2>3. call' \in Call /\ call'.op = "listing" /\ call'.path = d /\ call'.steady = Entries(d)
        /\ ~call'.linked
    BY <1>2, <2>2, EmptySeq DEF Idle, Call
  <2>4. open' \in Nat /\ listings' \in Nat
    BY <1>2 DEF IInv, TypeOK
  <2>5. TypeOK'
    BY <1>2, <2>3, <2>4, NothingType DEF IInv, TypeOK
  <2>6. OnlyListingsLeak'
    BY <1>2, <2>1, <2>3 DEF IInv, TypeOK, OnlyListingsLeak
  <2>7. CallHolds' /\ ReadingHolds' /\ WritingHolds'
    BY <2>3 DEF CallHolds, ReadingHolds, WritingHolds
  <2>8. ListingHolds' /\ AuthorHolds'
    BY <1>2, <2>3 DEF IInv, ListingHolds, AuthorHolds, Entries
  <2> QED BY <2>5, <2>6, <2>7, <2>8 DEF IInv
<1> QED BY <1>1, <1>2 DEF ReadDir

LEMMA NextEntryStep ==
  ASSUME IInv, NEW e, NextEntry(e)
  PROVE  IInv'
<1>1. call.op = "listing" /\ e \in Paths \cup Dots
  BY DEF NextEntry, Entries
<1>2. call' \in Call /\ call'.op = "listing" /\ call'.path = call.path
      /\ call'.steady = call.steady /\ call'.linked = call.linked
  BY <1>1 DEF IInv, TypeOK, Call, NextEntry
<1>3. TypeOK'
  BY <1>2 DEF IInv, TypeOK, NextEntry
<1>4. OnlyListingsLeak' /\ CallHolds' /\ ReadingHolds' /\ WritingHolds' /\ ListingHolds' /\ AuthorHolds'
  BY <1>1, <1>2 DEF IInv, OnlyListingsLeak, CallHolds, ReadingHolds, WritingHolds, ListingHolds,
     AuthorHolds, NextEntry
<1> QED BY <1>3, <1>4 DEF IInv

\* The switch skips . and .., and no other name.
LEMMA SkippedAreDots == Skipped = Dots
<1>1. ASSUME NEW e \in Paths \cup Dots
      PROVE  e \in Dots <=> e \in Skipped
  <2> DEFINE h == Shape[e]
  <2>1. h \in [1..3 -> {"dot", "other", "end"}] /\ (h[2] = "end" => h[3] = "end")
    BY FileAssumption DEF Shapes
  <2>2. e \in Dots <=> h = <<"dot", "end", "end">> \/ h = <<"dot", "dot", "end">>
    BY FileAssumption
  <2>3. e \in Skipped <=> h[1] = "dot" /\ (h[2] = "end" \/ (h[2] = "dot" /\ h[3] = "end"))
    BY DEF Skipped
  <2>4. ASSUME h[1] = "dot", h[2] = "end", h[3] = "end"
        PROVE  h = <<"dot", "end", "end">>
    BY <2>1, <2>4
  <2>5. ASSUME h[1] = "dot", h[2] = "dot", h[3] = "end"
        PROVE  h = <<"dot", "dot", "end">>
    BY <2>1, <2>5
  <2> HIDE DEF h
  <2> QED BY <2>1, <2>2, <2>3, <2>4, <2>5
<1> QED BY <1>1 DEF Skipped

LEMMA FinishReadDirStep ==
  ASSUME IInv, FinishReadDir
  PROVE  IInv'
<1>1. got' \in [text : Seq(Bytes \cup {Junk}), names : SUBSET Paths]
  <2>1. call.asked \ Skipped \subseteq Paths /\ got' = Answer(<<>>, call.asked \ Skipped)
    BY SkippedAreDots DEF IInv, TypeOK, Call, FinishReadDir
  <2>2. <<>> \in Seq(Bytes \cup {Junk})
    OBVIOUS
  <2> QED BY <2>1, <2>2 DEF Answer
<1>2. OnlyListingsLeak'
  BY DEF IInv, TypeOK, OnlyListingsLeak, FinishReadDir, Idle
<1> QED BY <1>1, <1>2, EndStep DEF FinishReadDir

-----------------------------------------------------------------------------
(* Other programs.                                                         *)

LEMMA RewriteStep ==
  ASSUME IInv, NEW p \in Paths, NEW s \in OtherTexts, Rewrite(p, s)
  PROVE  IInv'
<1>1. s \in Seq(Bytes) /\ Len(s) \in Nat
  BY FileAssumption
<1>2. /\ data' = [data EXCEPT ![p] = s] /\ author' = [author EXCEPT ![p] = Null]
      /\ disturbed' = (disturbed \/ IsOpen(p))
      /\ shrunk' = (shrunk \/ (IsOpen(p) /\ call.op = "reading" /\ Len(s) < call.size))
      /\ UNCHANGED <<kind, open, listings, call, got, fault>>
  BY DEF Rewrite
<1>3. disturbed' \in BOOLEAN /\ shrunk' \in BOOLEAN
  BY <1>2
<1>4. data' \in [Paths -> Seq(Bytes)] /\ author' \in [Paths -> Texts \cup {Null}]
  BY <1>1, <1>2 DEF IInv, TypeOK
<1>5. TypeOK'
  BY <1>2, <1>3, <1>4 DEF IInv, TypeOK
<1>6. OnlyListingsLeak' /\ CallHolds'
  BY <1>2 DEF IInv, OnlyListingsLeak, CallHolds
<1>7. ListingHolds' /\ AuthorHolds'
  BY <1>2 DEF IInv, TypeOK, ListingHolds, AuthorHolds
<1>8. CASE IsOpen(p)
  <2>1. Content' = s /\ disturbed'
    BY <1>2, <1>8 DEF IInv, TypeOK, Content, IsOpen
  <2>2. ReadingHolds'
    <3>1. ASSUME ~shrunk', call.op = "reading"
          PROVE  call.size <= Len(s)
      <4>1. ~(Len(s) < call.size) /\ call.size \in Nat
        BY <1>2, <1>8, <3>1 DEF IInv, TypeOK, Call
      <4> QED BY <1>1, <4>1
    <3> QED BY <1>2, <2>1, <3>1 DEF IInv, ReadingHolds
  <2>3. WritingHolds'
    BY <1>2, <1>8, <2>1 DEF IInv, TypeOK, WritingHolds, IsOpen
  <2> QED BY <1>5, <1>6, <1>7, <2>2, <2>3 DEF IInv
<1>9. CASE ~IsOpen(p)
  <2>1. disturbed' = disturbed /\ shrunk' = shrunk
    BY <1>2, <1>9 DEF IInv, TypeOK
  <2>2. call.linked => data'[call.path] = data[call.path] /\ author'[call.path] = author[call.path]
    BY <1>2, <1>9 DEF IInv, TypeOK, CallHolds, IsOpen
  <2>3. Content' = Content
    BY <1>2, <2>2 DEF Content
  <2>4. ReadingHolds'
    BY <1>2, <2>1, <2>3 DEF IInv, ReadingHolds
  <2>5. WritingHolds'
    BY <1>2, <2>1, <2>2 DEF IInv, WritingHolds
  <2> QED BY <1>5, <1>6, <1>7, <2>4, <2>5 DEF IInv
<1> QED BY <1>8, <1>9

LEMMA RelinkStep ==
  ASSUME IInv, NEW p \in Paths, NEW k \in Kinds, NEW s \in OtherTexts, Relink(p, k, s)
  PROVE  IInv'
<1>1. s \in Seq(Bytes)
  BY FileAssumption
<1>2. /\ kind' = [kind EXCEPT ![p] = k] /\ data' = [data EXCEPT ![p] = s]
      /\ author' = [author EXCEPT ![p] = Null]
      /\ UNCHANGED <<open, listings, got, disturbed, shrunk, fault>>
  BY DEF Relink
<1>3. /\ call' \in Call
      /\ call'.op = call.op /\ call'.path = call.path /\ call'.size = call.size
      /\ call'.buf = call.buf /\ call'.text = call.text /\ call'.pos = call.pos
      /\ call'.linked = (call.linked /\ call.path # p)
      /\ call'.rest = IF IsOpen(p) THEN data[p] ELSE call.rest
      /\ call'.steady = IF k = "none" THEN call.steady \ {p} ELSE call.steady
  BY DEF IInv, TypeOK, Call, Relink
<1>4. kind' \in [Paths -> Kinds] /\ data' \in [Paths -> Seq(Bytes)]
      /\ author' \in [Paths -> Texts \cup {Null}]
  BY <1>1, <1>2 DEF IInv, TypeOK
<1>5. TypeOK'
  BY <1>2, <1>3, <1>4 DEF IInv, TypeOK
<1>6. OnlyListingsLeak' /\ CallHolds'
  BY <1>2, <1>3 DEF IInv, OnlyListingsLeak, CallHolds
<1>7. ListingHolds' /\ AuthorHolds'
  BY <1>2, <1>3 DEF IInv, TypeOK, ListingHolds, AuthorHolds
<1>8. call'.linked => /\ data'[call.path] = data[call.path]
                      /\ author'[call.path] = author[call.path]
                      /\ kind'[call.path] = kind[call.path]
  BY <1>2, <1>3 DEF IInv, TypeOK, CallHolds
<1>9. Content' = Content
  <2>1. CASE IsOpen(p)
    BY <1>3, <2>1 DEF Content, IsOpen
  <2>2. CASE ~IsOpen(p)
    BY <1>3, <1>8, <2>2 DEF IInv, TypeOK, Call, Content, IsOpen
  <2> QED BY <2>1, <2>2
<1>10. ReadingHolds'
  BY <1>2, <1>3, <1>9 DEF IInv, ReadingHolds
<1>11. WritingHolds'
  <2>1. call'.linked => call.linked
    BY <1>3
  <2> QED BY <1>2, <1>3, <1>8, <2>1 DEF IInv, WritingHolds
<1> QED BY <1>5, <1>6, <1>7, <1>10, <1>11 DEF IInv

-----------------------------------------------------------------------------
(* Theorems.                                                               *)

LEMMA StutterStep ==
  ASSUME IInv, UNCHANGED vars
  PROVE  IInv'
<1> USE DEF vars
<1>1. TypeOK' /\ OnlyListingsLeak' /\ CallHolds'
  BY DEF IInv, TypeOK, OnlyListingsLeak, CallHolds
<1>2. ReadingHolds' /\ WritingHolds' /\ AuthorHolds' /\ ListingHolds'
  BY DEF IInv, ReadingHolds, WritingHolds, AuthorHolds, ListingHolds, Content
<1> QED BY <1>1, <1>2 DEF IInv

\* The natives count what they fetch and deliver in numbers.
LEMMA NextStep ==
  ASSUME IInv, [Next]_vars
  PROVE  IInv'
<1>1. CASE Script
  BY <1>1, ReadFileStep, MkDirStep, UnlinkStep, WriteFileStep, ReadDirStep, StopStep DEF Script, Exit
<1>2. CASE Native
  <2>1. \A k \in 1..call.size : k \in Nat
    BY DEF IInv, TypeOK, Call
  <2>2. \A k \in 1..Len(Back(call.text)) : k \in Nat
    BY BackType DEF IInv, TypeOK, Call
  <2> QED BY <1>2, <2>1, <2>2, MeasureStep, FinishReadStep, FinishWriteStep, FinishReadDirStep,
             FetchStep, DeliverStep, NextEntryStep DEF Native
<1>3. CASE Others
  BY <1>3, RewriteStep, RelinkStep DEF Others
<1>4. CASE UNCHANGED vars
  BY <1>4, StutterStep
<1> QED BY <1>1, <1>2, <1>3, <1>4 DEF Next

\* The invariant of the file functions holds for any names, texts and limits.
THEOREM FilesInvariant == Spec => []IInv
BY Initially, NextStep, PTL DEF Spec

\* Type correctness of the file functions.
THEOREM FilesTypeCorrect == Spec => []TypeOK
<1>1. IInv => TypeOK
  BY DEF IInv
<1> QED BY <1>1, FilesInvariant, PTL

\* Descriptors are lost to directory listings only: readFileSync and
\* writeFileSync close what they opened, whatever happens to the file.
THEOREM LeaksAreListings == Spec => []OnlyListingsLeak
<1>1. IInv => OnlyListingsLeak
  BY DEF IInv
<1> QED BY <1>1, FilesInvariant, PTL

WithinLimit == open \in 0..MaxOpen

\* The process never has more descriptors than MaxOpen: it stops, or fopen
\* fails, at the limit.
THEOREM DescriptorsAreBounded == Spec => [](WithinLimit /\ listings <= MaxOpen)
<1>1. Init => WithinLimit
  BY FileAssumption DEF Init, WithinLimit
<1>2. ASSUME IInv, WithinLimit, [Next]_vars
      PROVE  WithinLimit'
  <2>1. open \in Nat /\ MaxOpen \in Nat /\ open <= MaxOpen
    BY <1>2, FileAssumption DEF IInv, TypeOK, WithinLimit
  <2>2. CASE open' = open \/ (open < MaxOpen /\ open' = open + 1) \/ open' = open - 1
    <3>1. open' \in Nat
      BY <1>2 , NextStep DEF IInv, TypeOK
    <3> QED BY <2>1, <2>2, <3>1 DEF WithinLimit
  <2>3. CASE Script
    <3>1. ASSUME NEW p \in Paths, ReadFile(p) \/ MkDir(p) \/ Unlink(p)
          PROVE  open' = open \/ (open < MaxOpen /\ open' = open + 1)
      BY <3>1 DEF ReadFile, MkDir, Unlink, Opens, Fails, Returns
    <3>2. ASSUME NEW p \in Paths, NEW t \in Texts, WriteFile(p, t)
          PROVE  open' = open \/ (open < MaxOpen /\ open' = open + 1)
      BY <3>2 DEF WriteFile, Opens, Fails
    <3>3. ASSUME NEW d, ReadDir(d)
          PROVE  open' = open \/ (open < MaxOpen /\ open' = open + 1)
      BY <3>3 DEF ReadDir, Fails
    <3> QED BY <2>2, <2>3, <3>1, <3>2, <3>3 DEF Script, Exit, Fails
  <2>4. CASE Native
    <3>1. open' = open \/ open' = open - 1
      BY <2>4 DEF Native, Measure, FinishRead, FinishWrite, FinishReadDir, Fetch, Deliver,
         NextEntry, Close
    <3> QED BY <2>2, <3>1
  <2>5. CASE Others
    BY <2>2, <2>5 DEF Others, Rewrite, Relink
  <2>6. CASE UNCHANGED vars
    BY <2>2, <2>6 DEF vars
  <2> QED BY <1>2, <2>3, <2>4, <2>5, <2>6 DEF Next
<1>3. IInv /\ WithinLimit => listings <= MaxOpen
  <2> SUFFICES ASSUME IInv, WithinLimit PROVE listings <= MaxOpen
    OBVIOUS
  <2>1. open \in Nat /\ listings \in Nat /\ MaxOpen \in Nat /\ open <= MaxOpen
    BY FileAssumption DEF IInv, TypeOK, WithinLimit
  <2>2. open = listings \/ open = listings + 1
    BY <2>1 DEF IInv, OnlyListingsLeak
  <2> QED BY <2>1, <2>2
<1> QED BY <1>1, <1>2, <1>3, FilesInvariant, PTL DEF Spec

\* While fewer directories were listed than there are descriptors, fopen opens
\* every file that is there: nothing else the program did gets in its way.
THEOREM FilesOpenUntilListingsFillTheTable ==
  ASSUME NEW p \in Paths
  PROVE  Spec => [][ReadFile(p) /\ kind[p] = "file" /\ listings < MaxOpen
                    => call'.op = "opened" /\ call'.path = p /\ fault' = "none"]_vars
<1>1. ASSUME IInv, ReadFile(p), kind[p] = "file", listings < MaxOpen
      PROVE  call'.op = "opened" /\ call'.path = p /\ fault' = "none"
  <2>1. call.op = "idle" /\ fault = "none"
    BY <1>1 DEF ReadFile, Ready
  <2>2. open = listings + 0 /\ listings \in Nat
    BY <1>1, <2>1 DEF IInv, TypeOK, OnlyListingsLeak
  <2>3. open < MaxOpen /\ open # MaxOpen
    BY <1>1, <2>2, FileAssumption
  <2>4. Opens(Begin("opened", p))
    BY <1>1, <2>3 DEF ReadFile
  <2> QED BY <2>1, <2>4 DEF Opens, Begin, Idle
<1>2. IInv => [ReadFile(p) /\ kind[p] = "file" /\ listings < MaxOpen
               => call'.op = "opened" /\ call'.path = p /\ fault' = "none"]_vars
  BY <1>1
<1> QED BY <1>2, FilesInvariant, PTL

\* Only FinishRead ends a read.
LEMMA ReadsEndInFinishRead ==
  ASSUME IInv, [Next]_vars, ReturnsText
  PROVE  FinishRead
<1>1. call.op = "reading" /\ call' # call /\ call'.op = "idle"
  BY DEF ReturnsText
<1>2. CASE Script
  BY <1>1, <1>2 DEF Script, ReadFile, MkDir, Unlink, WriteFile, ReadDir, Exit, Ready
<1>3. CASE Native
  <2>1. call.op # "opened" /\ call.op # "writing" /\ call.op # "listing"
    BY <1>1
  <2>2. ASSUME NEW k, Fetch(k)
        PROVE  call'.op = "reading"
    BY <1>1, <2>2 DEF IInv, TypeOK, Call, Fetch
  <2> QED BY <1>1, <1>3, <2>1, <2>2 DEF Native, Measure, FinishWrite, FinishReadDir, Deliver, NextEntry
<1>4. CASE Others
  <2>1. call'.op = call.op
    BY <1>4 DEF IInv, TypeOK, Call, Others, Rewrite, Relink
  <2> QED BY <1>1, <2>1
<1>5. CASE UNCHANGED vars
  BY <1>1, <1>5 DEF vars
<1> QED BY <1>2, <1>3, <1>4, <1>5 DEF Next

\* readFileSync returns the bytes of a file nobody else writes to, up to the
\* first NUL, in however many pieces they come.
THEOREM ReadsAreAlwaysExact == Spec => ReadsAreExact
<1>1. ASSUME IInv, [Next]_vars, ReturnsText, ~disturbed
      PROVE  got'.text = CutAtNul(Content)
  BY <1>1, ReadsEndInFinishRead, ReadEnds
<1> QED BY <1>1, FilesInvariant, PTL DEF Spec, ReadsAreExact

\* readFileSync returns memory nobody wrote only after the file shrank under it.
THEOREM UnwrittenOnlyIfShrunk == Spec => NothingUnwritten
<1>1. ASSUME IInv, [Next]_vars, ReturnsText, ~shrunk
      PROVE  \A i \in 1..Len(got'.text) : got'.text[i] # Junk
  <2>1. got'.text \in Seq(Bytes)
    BY <1>1, ReadsEndInFinishRead, ReadEnds
  <2> QED BY <2>1, FileAssumption
<1> QED BY <1>1, FilesInvariant, PTL DEF Spec, NothingUnwritten

\* A portable text that writeFileSync wrote and nobody touched since is what
\* readFileSync returns.
THEOREM WrittenTextAlwaysReadsBack == Spec => WrittenTextReadsBack
<1>1. ASSUME IInv, [Next]_vars, ReturnsText, ~disturbed, call.linked,
             author[call.path] # Null, Portable(author[call.path])
      PROVE  got'.text = author[call.path]
  <2>1. got'.text = CutAtNul(data[call.path]) /\ call.path \in Paths
    BY <1>1, ReadsEndInFinishRead, ReadEnds DEF Content, IInv, CallHolds
  <2>2. data[call.path] = Back(author[call.path]) /\ author[call.path] \in Seq(Chars)
    BY <1>1, <2>1, FileAssumption DEF IInv, TypeOK, AuthorHolds
  <2> QED BY <1>1, <2>1, <2>2, BackPortable
<1> QED BY <1>1, FilesInvariant, PTL DEF Spec, WrittenTextReadsBack

\* readdirSync returns every file that a script wrote and nobody touched since.
THEOREM WrittenFilesAreAlwaysListed == Spec => WrittenFilesAreListed
<1>1. ASSUME IInv, [Next]_vars, call.op = "listing", call'.op = "idle", call.path = Here
      PROVE  {p \in Paths : author[p] # Null} \subseteq got'.names
  <2>1. FinishReadDir
    <3>1. CASE Script
      BY <1>1, <3>1 DEF Script, ReadFile, MkDir, Unlink, WriteFile, ReadDir, Exit, Ready
    <3>2. CASE Native
      <4>1. ASSUME NEW e, NextEntry(e)
            PROVE  call'.op = "listing"
        BY <1>1, <4>1 DEF IInv, TypeOK, Call, NextEntry
      <4> QED BY <1>1, <3>2, <4>1 DEF Native, Measure, FinishRead, FinishWrite, Fetch, Deliver
    <3>3. CASE Others
      BY <1>1, <3>3 DEF IInv, TypeOK, Call, Others, Rewrite, Relink
    <3>4. CASE UNCHANGED vars
      BY <1>1, <3>4 DEF vars
    <3> QED BY <1>1, <3>1, <3>2, <3>3, <3>4 DEF Next
  <2>2. got'.names = call.asked \ Dots /\ call.steady \subseteq call.asked
    BY <2>1, SkippedAreDots DEF FinishReadDir, Answer
  <2>3. \A p \in Paths : author[p] # Null => p \in call.steady
    BY <1>1 DEF IInv, ListingHolds
  <2> QED BY <2>2, <2>3, FileAssumption
<1> QED BY <1>1, FilesInvariant, PTL DEF Spec, WrittenFilesAreListed
=============================================================================
