------------------------ MODULE SkeletonTokensProofs ------------------------
(***************************************************************************)
(* What the parser and the reader of skeleton tokens compute, for every    *)
(* sequence of tokens, and the writer, for every skeleton.  They are       *)
(* recursive functions and folds, so this goes by induction, in a form     *)
(* that takes a set and not an operator.                                   *)
(***************************************************************************)
EXTENDS SkeletonTokens, FiniteSetTheorems, FunctionTheorems, SequenceTheorems, TLAPS

(* A set with 0 and the successors of its numbers has all of them: the     *)
(* successor would otherwise take a finite part of it into itself, one to  *)
(* one, without reaching 0.                                                *)
LEMMA Induction ==
  ASSUME NEW S, 0 \in S, \A n \in Nat : n \in S => n + 1 \in S
  PROVE  Nat \subseteq S
<1> SUFFICES ASSUME NEW n \in Nat, n \notin S
             PROVE  FALSE
  OBVIOUS
<1> DEFINE A == S \cap (0 .. n)
           f == [i \in A |-> i + 1]
<1>1. IsFiniteSet(A)
  <2>1. IsFiniteSet(0 .. n)
    BY FS_Interval
  <2> QED
    BY <2>1, FS_Subset
<1>2. f \in Injection(A, A)
  BY DEF Injection, IsInjective
<1>3. f \in Surjection(A, A)
  BY <1>1, <1>2, FS_Injection
<1> HIDE DEF A
<1>4. 0 \in A /\ \A i \in A : i \in Nat
  BY DEF A
<1>5. \E i \in A : f[i] = 0
  BY <1>3, <1>4 DEF Surjection
<1> QED
  BY <1>4, <1>5

(* The same up to a bound.                                                 *)
LEMMA BoundedInduction ==
  ASSUME NEW n \in Nat, NEW S, 0 \in S, \A i \in 0 .. n - 1 : i \in S => i + 1 \in S
  PROVE  0 .. n \subseteq S
<1> DEFINE T == {i \in Nat : i <= n => i \in S}
<1>1. 0 \in T /\ \A i \in Nat : i \in T => i + 1 \in T
  OBVIOUS
<1> HIDE DEF T
<1>2. Nat \subseteq T
  BY <1>1, Induction
<1> QED
  BY <1>2 DEF T

(* A set of numbers that is not empty has a least one.                     *)
LEMMA Least ==
  ASSUME NEW S, NEW m \in Nat, m \in S
  PROVE  \E k \in Nat : k \in S /\ \A i \in 0 .. k - 1 : i \notin S
<1> SUFFICES ASSUME \A k \in Nat : k \in S => \E i \in 0 .. k - 1 : i \in S
             PROVE  FALSE
  OBVIOUS
<1> DEFINE T == {k \in Nat : \A i \in 0 .. k : i \notin S}
<1>1. 0 \in T
  OBVIOUS
<1>2. \A k \in Nat : k \in T => k + 1 \in T
  OBVIOUS
<1> HIDE DEF T
<1>3. Nat \subseteq T
  BY <1>1, <1>2, Induction
<1> QED
  BY <1>3 DEF T
-----------------------------------------------------------------------------
(* The parser.                                                             *)

ParserStates ==
  [state : {"bos", "first", "part_or_joint", "joint_2", "joint_3", "between", "joint", "error"},
   joints : Nat, ended : BOOLEAN, branchHalf : BOOLEAN]

LEMMA FreshState == Fresh \in ParserStates
BY DEF Fresh, ParserStates

LEMMA ParsedState ==
  ASSUME NEW p \in ParserStates, NEW id
  PROVE  Parsed(p, id) \in ParserStates
<1>1. StateAfter(p.state, id) \in
        {"first", "part_or_joint", "joint_2", "joint_3", "between", "joint", "error"}
  BY DEF StateAfter
<1> QED
  BY <1>1 DEF Parsed, ParserStates

(* The recursive definition defines: there are runs g of the parser over   *)
(* any part of the tokens.                                                 *)
ParserRun(ids, k, g) ==
  g[0] = {Fresh} /\ \A n \in 1 .. k : g[n] = ParsedFrom(g[n - 1], ids[n])

LEMMA ParserUnfolds ==
  ASSUME NEW ids, Len(ids) \in Nat
  PROVE  ParserAfter(ids) =
           [n \in 0 .. Len(ids) |->
              IF n = 0 THEN {Fresh} ELSE ParsedFrom(ParserAfter(ids)[n - 1], ids[n])]
<1> DEFINE S == {k \in Nat : \E g : ParserRun(ids, k, g)}
<1>1. 0 \in S
  <2> DEFINE g == [n \in 0 .. 0 |-> {Fresh}]
  <2>1. ParserRun(ids, 0, g)
    BY DEF ParserRun
  <2> QED
    BY <2>1
<1>2. ASSUME NEW k \in Nat, k \in S
      PROVE  k + 1 \in S
  <2>1. PICK g : ParserRun(ids, k, g)
    BY <1>2
  <2> DEFINE h == [n \in 0 .. k + 1 |-> IF n <= k THEN g[n] ELSE ParsedFrom(g[k], ids[n])]
  <2>2. /\ \A n \in 0 .. k : h[n] = g[n]
        /\ h[k + 1] = ParsedFrom(g[k], ids[k + 1])
    OBVIOUS
  <2> HIDE DEF h
  <2>3. ASSUME NEW n \in 1 .. k + 1
        PROVE  h[n] = ParsedFrom(h[n - 1], ids[n])
    <3>1. h[n - 1] = g[n - 1]
      BY <2>2
    <3>2. CASE n <= k
      BY <2>1, <2>2, <3>1, <3>2 DEF ParserRun
    <3>3. CASE n = k + 1
      BY <2>2, <3>1, <3>3
    <3> QED
      BY <3>2, <3>3
  <2>4. h[0] = {Fresh}
    BY <2>1, <2>2 DEF ParserRun
  <2>5. ParserRun(ids, k + 1, h)
    BY <2>3, <2>4 DEF ParserRun
  <2> QED
    BY <2>5
<1>3. Nat \subseteq S
  <2> HIDE DEF S
  <2> QED
    BY <1>1, <1>2, Induction
<1>4. PICK g : ParserRun(ids, Len(ids), g)
  BY <1>3
<1> DEFINE h == [n \in 0 .. Len(ids) |-> g[n]]
           again == [n \in 0 .. Len(ids) |->
                       IF n = 0 THEN {Fresh} ELSE ParsedFrom(h[n - 1], ids[n])]
<1>5. ASSUME NEW n \in 0 .. Len(ids)
      PROVE  h[n] = IF n = 0 THEN {Fresh} ELSE ParsedFrom(h[n - 1], ids[n])
  <2>1. CASE n = 0
    BY <1>4, <2>1 DEF ParserRun
  <2>2. CASE n # 0
    <3>1. n \in 1 .. Len(ids) /\ n - 1 \in 0 .. Len(ids)
      BY <2>2
    <3>2. h[n] = g[n] /\ h[n - 1] = g[n - 1]
      BY <3>1
    <3> QED
      BY <1>4, <2>2, <3>1, <3>2 DEF ParserRun
  <2> QED
    BY <2>1, <2>2
<1>6. h = again
  BY <1>5
<1> HIDE DEF h
<1> QED
  BY <1>6 DEF ParserAfter

LEMMA ParserSteps ==
  ASSUME NEW ids, Len(ids) \in Nat
  PROVE  /\ ParserAfter(ids)[0] = {Fresh}
         /\ \A n \in 0 .. Len(ids) - 1 :
              ParserAfter(ids)[n + 1] = ParsedFrom(ParserAfter(ids)[n], ids[n + 1])
BY ParserUnfolds

(* There is just one state after each token.                               *)
LEMMA ParserSingle ==
  ASSUME NEW ids, Len(ids) \in Nat
  PROVE  \A k \in 0 .. Len(ids) : \E p \in ParserStates : ParserAfter(ids)[k] = {p}
<1> DEFINE S == {k \in Nat : \E p \in ParserStates : ParserAfter(ids)[k] = {p}}
<1>1. 0 \in S
  BY ParserSteps, FreshState
<1>2. ASSUME NEW k \in 0 .. Len(ids) - 1, k \in S
      PROVE  k + 1 \in S
  <2>1. PICK p \in ParserStates : ParserAfter(ids)[k] = {p}
    BY <1>2
  <2>2. ParserAfter(ids)[k + 1] = ParsedFrom(ParserAfter(ids)[k], ids[k + 1])
    BY ParserSteps
  <2>3. ParserAfter(ids)[k + 1] = {Parsed(p, ids[k + 1])}
    BY <2>1, <2>2 DEF ParsedFrom
  <2> QED
    BY <2>3, ParsedState
<1> HIDE DEF S
<1>3. 0 .. Len(ids) \subseteq S
  BY <1>1, <1>2, BoundedInduction
<1> QED
  BY <1>3 DEF S

(* Parsing takes one token after the other.                                *)
LEMMA ParseEmpty == Parse(<<>>) = Fresh
<1>1. Len(<<>>) = 0
  OBVIOUS
<1>2. ParserAfter(<<>>)[0] = {Fresh}
  BY <1>1, ParserUnfolds
<1> QED
  BY <1>1, <1>2 DEF Parse

LEMMA ParseAppend ==
  ASSUME NEW T, NEW ids \in Seq(T), NEW id \in T
  PROVE  /\ Parse(ids) \in ParserStates
         /\ Parse(Append(ids, id)) = Parsed(Parse(ids), id)
<1> DEFINE n == Len(ids)
           longer == Append(ids, id)
           S == {k \in Nat : ParserAfter(longer)[k] = ParserAfter(ids)[k]}
<1>1. /\ n \in Nat /\ Len(longer) = n + 1 /\ longer[n + 1] = id
      /\ \A k \in 1 .. n : longer[k] = ids[k]
  BY AppendProperties
<1> HIDE DEF longer, n
<1>2. /\ ParserAfter(ids)[0] = {Fresh} /\ ParserAfter(longer)[0] = {Fresh}
      /\ \A k \in 0 .. n - 1 :
           ParserAfter(ids)[k + 1] = ParsedFrom(ParserAfter(ids)[k], ids[k + 1])
  BY <1>1, ParserSteps DEF n
<1>21. \A k \in 0 .. n :
           ParserAfter(longer)[k + 1] = ParsedFrom(ParserAfter(longer)[k], longer[k + 1])
  BY <1>1, ParserSteps
<1>3. 0 \in S
  BY <1>1, <1>2
<1>4. ASSUME NEW k \in 0 .. n - 1, k \in S
      PROVE  k + 1 \in S
  <2>1. ParserAfter(longer)[k + 1] = ParsedFrom(ParserAfter(longer)[k], longer[k + 1])
    BY <1>1, <1>21
  <2>2. ParserAfter(ids)[k + 1] = ParsedFrom(ParserAfter(ids)[k], ids[k + 1])
    BY <1>1, <1>2
  <2>3. longer[k + 1] = ids[k + 1]
    BY <1>1
  <2> QED
    BY <1>1, <1>4, <2>1, <2>2, <2>3
<1>5. n \in S
  <2> HIDE DEF S
  <2>1. 0 .. n \subseteq S
    BY <1>1, <1>3, <1>4, BoundedInduction
  <2> QED
    BY <1>1, <2>1
<1>6. PICK p \in ParserStates : ParserAfter(ids)[n] = {p}
  BY <1>1, ParserSingle DEF n
<1>7. Parse(ids) = p
  BY <1>6 DEF Parse, n
<1>8. ParserAfter(longer)[n + 1] = ParsedFrom(ParserAfter(longer)[n], longer[n + 1])
  BY <1>1, <1>21
<1>9. ParserAfter(longer)[n + 1] = {Parsed(p, id)}
  BY <1>1, <1>5, <1>6, <1>8 DEF ParsedFrom
<1>10. Parse(longer) = Parsed(p, id)
  BY <1>1, <1>9 DEF Parse
<1> QED
  BY <1>6, <1>7, <1>10 DEF longer

(* Parsing a prefix.                                                       *)
Prefix(ids, k) == SubSeq(ids, 1, k)

LEMMA PrefixFacts ==
  ASSUME NEW T, NEW ids \in Seq(T)
  PROVE  /\ Prefix(ids, 0) = <<>>
         /\ Prefix(ids, Len(ids)) = ids
         /\ \A k \in 0 .. Len(ids) :
              Prefix(ids, k) \in Seq(T) /\ Len(Prefix(ids, k)) = k
         /\ \A k \in 1 .. Len(ids) :
              Prefix(ids, k) = Append(Prefix(ids, k - 1), ids[k])
<1>1. Len(ids) \in Nat /\ \A i \in 1 .. Len(ids) : ids[i] \in T
  BY LenProperties, ElementOfSeq
<1>2. Prefix(ids, 0) = <<>>
  BY SubSeqEmpty DEF Prefix
<1>3. Prefix(ids, Len(ids)) = ids
  BY SubSeqFull DEF Prefix
<1>4. ASSUME NEW k \in 0 .. Len(ids)
      PROVE  /\ Prefix(ids, k) \in Seq(T) /\ Len(Prefix(ids, k)) = k
             /\ \A i \in 1 .. k : Prefix(ids, k)[i] = ids[i]
  BY <1>1, SubSeqProperties DEF Prefix
<1>5. ASSUME NEW k \in 1 .. Len(ids)
      PROVE  Prefix(ids, k) = Append(Prefix(ids, k - 1), ids[k])
  <2> DEFINE front == Prefix(ids, k - 1)
  <2>1. /\ front \in Seq(T) /\ Len(front) = k - 1
        /\ \A i \in 1 .. k - 1 : front[i] = ids[i]
    BY <1>1, <1>4
  <2>2. ids[k] \in T
    BY <1>1
  <2> HIDE DEF front
  <2>3. /\ Append(front, ids[k]) \in Seq(T) /\ Len(Append(front, ids[k])) = k
        /\ \A i \in 1 .. k : Append(front, ids[k])[i] = ids[i]
    BY <2>1, <2>2, AppendProperties
  <2>4. /\ Prefix(ids, k) \in Seq(T) /\ Len(Prefix(ids, k)) = k
        /\ \A i \in 1 .. k : Prefix(ids, k)[i] = ids[i]
    BY <1>1, <1>4
  <2>5. Prefix(ids, k) = Append(front, ids[k])
    BY <2>3, <2>4, SeqEqual
  <2> QED
    BY <2>5 DEF front
<1> QED
  BY <1>2, <1>3, <1>4, <1>5

LEMMA ParsePrefix ==
  ASSUME NEW T, NEW ids \in Seq(T)
  PROVE  /\ Parse(Prefix(ids, 0)) = Fresh
         /\ Parse(ids) = Parse(Prefix(ids, Len(ids)))
         /\ \A k \in 0 .. Len(ids) : Parse(Prefix(ids, k)) \in ParserStates
         /\ \A k \in 1 .. Len(ids) :
              Parse(Prefix(ids, k)) = Parsed(Parse(Prefix(ids, k - 1)), ids[k])
<1>1. Len(ids) \in Nat /\ \A i \in 1 .. Len(ids) : ids[i] \in T
  BY LenProperties, ElementOfSeq
<1>2. ASSUME NEW k \in 1 .. Len(ids)
      PROVE  /\ Parse(Prefix(ids, k)) = Parsed(Parse(Prefix(ids, k - 1)), ids[k])
             /\ Parse(Prefix(ids, k - 1)) \in ParserStates
  <2>0. k - 1 \in 0 .. Len(ids)
    BY <1>1
  <2>1. /\ Prefix(ids, k - 1) \in Seq(T)
        /\ Prefix(ids, k) = Append(Prefix(ids, k - 1), ids[k])
    BY <2>0, PrefixFacts
  <2> QED
    BY <1>1, <2>1, ParseAppend
<1>3. Parse(Prefix(ids, 0)) = Fresh
  BY PrefixFacts, ParseEmpty
<1>4. \A k \in 0 .. Len(ids) : Parse(Prefix(ids, k)) \in ParserStates
  <2> TAKE k \in 0 .. Len(ids)
  <2>1. CASE k = 0
    BY <1>3, <2>1, FreshState
  <2>2. CASE k # 0
    BY <1>1, <1>2, <2>2, ParsedState
  <2> QED
    BY <2>1, <2>2
<1> QED
  BY <1>2, <1>3, <1>4, PrefixFacts

(* A token the parser accepts.                                             *)
LEMMA Accepted ==
  ASSUME NEW p \in ParserStates, NEW id, Parsed(p, id).state # "error"
  PROVE  /\ ~p.ended /\ p.state # "error"
         /\ StateAfter(p.state, id) # "error"
         /\ Parsed(p, id).state = StateAfter(p.state, id)
         /\ Parsed(p, id).joints =
              p.joints + (IF p.state = "joint_3" /\ ~p.branchHalf THEN 1 ELSE 0)
         /\ Parsed(p, id).ended <=> id = End
         /\ Parsed(p, id).branchHalf <=> id = Branch \/ (p.branchHalf /\ p.state # "joint_3")
<1>1. ~p.ended /\ StateAfter(p.state, id) # "error"
  BY DEF Parsed, ParserStates
<1>2. Parsed(p, id) =
        [state |-> StateAfter(p.state, id),
         joints |-> p.joints + (IF p.state = "joint_3" /\ ~p.branchHalf THEN 1 ELSE 0),
         ended |-> id = End,
         branchHalf |-> id = Branch \/ (p.branchHalf /\ p.state # "joint_3")]
  BY <1>1 DEF Parsed
<1>3. p.state # "error"
  BY <1>1 DEF StateAfter
<1>4. Parsed(p, id).ended <=> id = End
  <2>1. Parsed(p, id).ended = (id = End)
    BY <1>2
  <2> QED
    BY <2>1, Zenon
<1>5. Parsed(p, id).branchHalf <=> id = Branch \/ (p.branchHalf /\ p.state # "joint_3")
  <2>1. Parsed(p, id).branchHalf = (id = Branch \/ (p.branchHalf /\ p.state # "joint_3"))
    BY <1>2
  <2> QED
    BY <2>1, Zenon
<1>6. /\ Parsed(p, id).state = StateAfter(p.state, id)
      /\ Parsed(p, id).joints =
           p.joints + (IF p.state = "joint_3" /\ ~p.branchHalf THEN 1 ELSE 0)
  BY <1>2
<1> QED
  BY <1>1, <1>3, <1>4, <1>5, <1>6

(* An accepted sequence has accepted prefixes.                             *)
LEMMA PrefixAccepted ==
  ASSUME NEW T, NEW ids \in Seq(T), Parse(ids).state # "error"
  PROVE  \A k \in 0 .. Len(ids) : Parse(Prefix(ids, k)).state # "error"
<1> DEFINE n == Len(ids)
           S == {d \in Nat : Parse(Prefix(ids, n - d)).state # "error"}
<1>1. n \in Nat
  BY LenProperties
<1>2. 0 \in S
  BY <1>1, ParsePrefix
<1>3. ASSUME NEW d \in 0 .. n - 1, d \in S
      PROVE  d + 1 \in S
  <2>1. n - d \in 1 .. n /\ (n - d) - 1 = n - (d + 1)
    BY <1>1
  <2>2. Parse(Prefix(ids, n - d)) = Parsed(Parse(Prefix(ids, n - (d + 1))), ids[n - d])
    BY <2>1, ParsePrefix
  <2>3. Parse(Prefix(ids, n - (d + 1))) \in ParserStates
    BY <1>1, <2>1, ParsePrefix
  <2> QED
    BY <1>3, <2>2, <2>3, Accepted
<1>4. 0 .. n \subseteq S
  <2> HIDE DEF S, n
  <2> QED
    BY <1>1, <1>2, <1>3, BoundedInduction
<1> SUFFICES ASSUME NEW k \in 0 .. n
             PROVE  Parse(Prefix(ids, k)).state # "error"
  OBVIOUS
<1>5. n - k \in 0 .. n /\ n - (n - k) = k
  BY <1>1
<1>6. n - k \in S
  BY <1>4, <1>5
<1> QED
  BY <1>5, <1>6
-----------------------------------------------------------------------------
(* The reader.                                                             *)

(* The rounds of the reader, in the same way.                              *)
ReaderRun(tokens, k, g) ==
  g[0] = ReaderStart /\ \A n \in 1 .. k : g[n] = Read(tokens, g[n - 1])

LEMMA ReaderUnfolds ==
  ASSUME NEW tokens, Len(tokens) \in Nat
  PROVE  ReaderAfter(tokens) =
           [n \in 0 .. Len(tokens) |->
              IF n = 0 THEN ReaderStart ELSE Read(tokens, ReaderAfter(tokens)[n - 1])]
<1> DEFINE S == {k \in Nat : \E g : ReaderRun(tokens, k, g)}
<1>1. 0 \in S
  <2> DEFINE g == [n \in 0 .. 0 |-> ReaderStart]
  <2>1. ReaderRun(tokens, 0, g)
    BY DEF ReaderRun
  <2> QED
    BY <2>1
<1>2. ASSUME NEW k \in Nat, k \in S
      PROVE  k + 1 \in S
  <2>1. PICK g : ReaderRun(tokens, k, g)
    BY <1>2
  <2> DEFINE h == [n \in 0 .. k + 1 |-> IF n <= k THEN g[n] ELSE Read(tokens, g[k])]
  <2>2. /\ \A n \in 0 .. k : h[n] = g[n]
        /\ h[k + 1] = Read(tokens, g[k])
    OBVIOUS
  <2> HIDE DEF h
  <2>3. ASSUME NEW n \in 1 .. k + 1
        PROVE  h[n] = Read(tokens, h[n - 1])
    <3>1. h[n - 1] = g[n - 1]
      BY <2>2
    <3>2. CASE n <= k
      BY <2>1, <2>2, <3>1, <3>2 DEF ReaderRun
    <3>3. CASE n = k + 1
      BY <2>2, <3>1, <3>3
    <3> QED
      BY <3>2, <3>3
  <2>4. h[0] = ReaderStart
    BY <2>1, <2>2 DEF ReaderRun
  <2>5. ReaderRun(tokens, k + 1, h)
    BY <2>3, <2>4 DEF ReaderRun
  <2> QED
    BY <2>5
<1>3. Nat \subseteq S
  <2> HIDE DEF S
  <2> QED
    BY <1>1, <1>2, Induction
<1>4. PICK g : ReaderRun(tokens, Len(tokens), g)
  BY <1>3
<1> DEFINE h == [n \in 0 .. Len(tokens) |-> g[n]]
           again == [n \in 0 .. Len(tokens) |->
                       IF n = 0 THEN ReaderStart ELSE Read(tokens, h[n - 1])]
<1>5. ASSUME NEW n \in 0 .. Len(tokens)
      PROVE  h[n] = IF n = 0 THEN ReaderStart ELSE Read(tokens, h[n - 1])
  <2>1. CASE n = 0
    BY <1>4, <2>1 DEF ReaderRun
  <2>2. CASE n # 0
    <3>1. n \in 1 .. Len(tokens) /\ n - 1 \in 0 .. Len(tokens)
      BY <2>2
    <3>2. h[n] = g[n] /\ h[n - 1] = g[n - 1]
      BY <3>1
    <3> QED
      BY <1>4, <2>2, <3>1, <3>2 DEF ReaderRun
  <2> QED
    BY <2>1, <2>2
<1>6. h = again
  BY <1>5
<1> HIDE DEF h
<1> QED
  BY <1>6 DEF ReaderAfter

LEMMA ReaderSteps ==
  ASSUME NEW tokens, Len(tokens) \in Nat
  PROVE  /\ ReaderAfter(tokens)[0] = ReaderStart
         /\ \A n \in 0 .. Len(tokens) - 1 :
              ReaderAfter(tokens)[n + 1] = Read(tokens, ReaderAfter(tokens)[n])
BY ReaderUnfolds

(* A skeleton as the generator hands it over: ended by its one terminator. *)
WellFormed(s) ==
  /\ s \in Seq(Nat) /\ Len(s) > 2
  /\ s[1] = Bos /\ s[2] = Articulation /\ s[Len(s)] = End
  /\ \A i \in 1 .. Len(s) - 1 : s[i] # End
  /\ Parse(s).state # "error"

ParsedTo(s, k) == Parse(Prefix(s, k))

(* Every token of it is accepted.                                          *)
LEMMA TokenAccepted ==
  ASSUME NEW s, WellFormed(s), NEW k \in 1 .. Len(s)
  PROVE  LET p == ParsedTo(s, k - 1)
             q == ParsedTo(s, k)
         IN /\ p \in ParserStates /\ q \in ParserStates /\ p.state # "error"
            /\ StateAfter(p.state, s[k]) # "error"
            /\ q.state = StateAfter(p.state, s[k])
            /\ q.joints = p.joints + (IF p.state = "joint_3" /\ ~p.branchHalf THEN 1 ELSE 0)
            /\ q.branchHalf <=> s[k] = Branch \/ (p.branchHalf /\ p.state # "joint_3")
<1>1. s \in Seq(Nat) /\ Parse(s).state # "error" /\ Len(s) \in Nat
  BY LenProperties DEF WellFormed
<1>2. k - 1 \in 0 .. Len(s) /\ k \in 0 .. Len(s)
  BY <1>1
<1>3. /\ ParsedTo(s, k - 1) \in ParserStates /\ ParsedTo(s, k) \in ParserStates
      /\ ParsedTo(s, k).state # "error"
      /\ ParsedTo(s, k) = Parsed(ParsedTo(s, k - 1), s[k])
  BY <1>1, <1>2, ParsePrefix, PrefixAccepted DEF ParsedTo
<1> QED
  BY <1>3, Accepted

(* The states in which the reader starts a round.                          *)
Boundary == {"first", "part_or_joint", "between", "joint"}

LEMMA CoordinateAtBoundary ==
  ASSUME NEW st \in Boundary, NEW id \in Nat, id < 256
  PROVE  StateAfter(st, id) = "joint_2"
BY SkeletonTokensAssumption DEF StateAfter, Boundary, Bos, Classes, Branch, End

LEMMA BranchAtBoundary ==
  ASSUME NEW st \in Boundary, StateAfter(st, Branch) # "error"
  PROVE  st = "between" /\ StateAfter(st, Branch) = "joint"
BY SkeletonTokensAssumption DEF StateAfter, Boundary, Bos, Classes, Branch, End

LEMMA MarkAtBoundary ==
  ASSUME NEW st \in Boundary, NEW id \in Parts \cup Classes, StateAfter(st, id) # "error"
  PROVE  st # "joint" /\ StateAfter(st, id) \in {"joint", "part_or_joint"}
BY SkeletonTokensAssumption DEF StateAfter, Boundary, Bos, Classes, Branch, End

LEMMA EndAtBoundary ==
  ASSUME NEW st \in Boundary, StateAfter(st, End) # "error"
  PROVE  st \in {"part_or_joint", "between"} /\ StateAfter(st, End) = st
BY SkeletonTokensAssumption DEF StateAfter, Boundary, Bos, Classes, Branch, End

LEMMA OthersRejected ==
  ASSUME NEW st \in Boundary, NEW id \in Nat, StateAfter(st, id) # "error"
  PROVE  id < 256 \/ id \in {Branch, End} \cup Parts \cup Classes
BY SkeletonTokensAssumption DEF StateAfter, Boundary, Bos, Classes, Branch, End

LEMMA Byte == \A t \in Nat : t < 256 <=> t \in 0 .. 255
OBVIOUS

(* A coordinate there is the first of three.                               *)
LEMMA PointAhead ==
  ASSUME NEW s, WellFormed(s), NEW k \in 1 .. Len(s),
         ParsedTo(s, k - 1).state \in Boundary, s[k] < 256
  PROVE  /\ k + 2 < Len(s)
         /\ \A i \in k .. k + 2 : s[i] \in 0 .. 255
         /\ ParsedTo(s, k + 2).state = "between"
         /\ ~ParsedTo(s, k + 2).branchHalf
         /\ ParsedTo(s, k + 2).joints =
              ParsedTo(s, k - 1).joints + (IF ParsedTo(s, k - 1).branchHalf THEN 0 ELSE 1)
<1>1. /\ Len(s) \in Nat /\ \A i \in 1 .. Len(s) : s[i] \in Nat
      /\ s[Len(s)] = End
  BY LenProperties, ElementOfSeq DEF WellFormed
<1> DEFINE p(i) == ParsedTo(s, i)
<1>2. \A i \in 1 .. Len(s) :
        /\ p(i - 1) \in ParserStates
        /\ StateAfter(p(i - 1).state, s[i]) # "error"
        /\ p(i).state = StateAfter(p(i - 1).state, s[i])
        /\ p(i).joints =
             p(i - 1).joints + (IF p(i - 1).state = "joint_3" /\ ~p(i - 1).branchHalf THEN 1 ELSE 0)
        /\ p(i).branchHalf <=> s[i] = Branch \/ (p(i - 1).branchHalf /\ p(i - 1).state # "joint_3")
  BY TokenAccepted
<1>3. \A i \in 1 .. Len(s) : /\ p(i - 1).joints \in Nat
                             /\ p(i - 1).branchHalf \in BOOLEAN
                             /\ s[i] < 256 => i < Len(s) /\ s[i] # Branch
  BY <1>1, <1>2 DEF ParserStates, End, Branch
<1> HIDE DEF p
<1>4. /\ p(k).state = "joint_2" /\ k < Len(s)
      /\ p(k).joints = p(k - 1).joints
      /\ p(k).branchHalf <=> p(k - 1).branchHalf
  <2>1. p(k - 1).state \in Boundary
    BY DEF p
  <2>2. StateAfter(p(k - 1).state, s[k]) = "joint_2"
    <3>1. s[k] \in Nat
      BY <1>1
    <3> QED
      BY <2>1, <3>1, CoordinateAtBoundary
  <2>3. p(k - 1).state # "joint_3"
    BY <2>1 DEF Boundary
  <2> QED
    BY <1>2, <1>3, <2>2, <2>3
<1>5. /\ p(k + 1).state = "joint_3" /\ k + 1 < Len(s) /\ s[k + 1] < 256
      /\ p(k + 1).joints = p(k).joints
      /\ p(k + 1).branchHalf <=> p(k).branchHalf
  <2>1. k + 1 \in 1 .. Len(s) /\ (k + 1) - 1 = k
    BY <1>1, <1>4
  <2>2. StateAfter("joint_2", s[k + 1]) # "error"
    BY <1>2, <1>4, <2>1
  <2>3. s[k + 1] < 256 /\ StateAfter("joint_2", s[k + 1]) = "joint_3"
    BY <2>2 DEF StateAfter
  <2> QED
    BY <1>2, <1>3, <1>4, <2>1, <2>3
<1>6. /\ p(k + 2).state = "between" /\ k + 2 < Len(s) /\ s[k + 2] < 256
      /\ p(k + 2).joints = p(k + 1).joints + (IF p(k + 1).branchHalf THEN 0 ELSE 1)
      /\ ~p(k + 2).branchHalf
  <2>1. k + 2 \in 1 .. Len(s) /\ (k + 2) - 1 = k + 1
    BY <1>1, <1>5
  <2>2. StateAfter("joint_3", s[k + 2]) # "error"
    BY <1>2, <1>5, <2>1
  <2>3. s[k + 2] < 256 /\ StateAfter("joint_3", s[k + 2]) = "between"
    BY <2>2 DEF StateAfter
  <2>4. p(k + 2).joints = p(k + 1).joints + (IF ~p(k + 1).branchHalf THEN 1 ELSE 0)
    BY <1>2, <1>5, <2>1
  <2> QED
    BY <1>2, <1>3, <1>5, <2>1, <2>3, <2>4
<1>7. \A i \in k .. k + 2 : s[i] \in 0 .. 255
  <2> TAKE i \in k .. k + 2
  <2>1. i = k \/ i = k + 1 \/ i = k + 2
    OBVIOUS
  <2>2. s[i] < 256 /\ i \in 1 .. Len(s)
    BY <1>1, <1>5, <1>6, <2>1
  <2>3. s[i] \in Nat
    BY <1>1, <2>2
  <2> QED
    BY <2>2, <2>3, Byte
<1>8. p(k + 2).joints = p(k - 1).joints + (IF p(k - 1).branchHalf THEN 0 ELSE 1)
  BY <1>4, <1>5, <1>6
<1> QED
  BY <1>6, <1>7, <1>8 DEF p

(* What a round does with the reader's fields.                             *)
IsReader(r) ==
  r = [cursor |-> r.cursor, branch |-> r.branch, previous |-> r.previous,
       cells |-> r.cells, parents |-> r.parents, failed |-> r.failed]

Stopped(s, r) == r.failed \/ r.cursor >= Len(s) \/ s[r.cursor] = End

LEMMA ReadStopped ==
  ASSUME NEW s, NEW r, Stopped(s, r)
  PROVE  Read(s, r) = r
BY DEF Read, Stopped

LEMMA ReadBranch ==
  ASSUME NEW s, NEW r, IsReader(r), ~Stopped(s, r), s[r.cursor] = Branch
  PROVE  Read(s, r) = [cursor |-> r.cursor + 1, branch |-> TRUE, previous |-> NoPoint,
                       cells |-> r.cells, parents |-> r.parents, failed |-> r.failed]
<1>1. Read(s, r) = [r EXCEPT !.branch = TRUE, !.previous = NoPoint, !.cursor = r.cursor + 1]
  BY SkeletonTokensAssumption DEF Read, Stopped, Branch, Classes
<1> QED
  BY <1>1 DEF IsReader

LEMMA ReadMark ==
  ASSUME NEW s, NEW r, IsReader(r), ~Stopped(s, r), s[r.cursor] \in Parts \cup Classes
  PROVE  Read(s, r) = [cursor |-> r.cursor + 1, branch |-> r.branch, previous |-> r.previous,
                       cells |-> r.cells, parents |-> r.parents, failed |-> r.failed]
<1>1. Read(s, r) = [r EXCEPT !.cursor = r.cursor + 1]
  BY SkeletonTokensAssumption DEF Read, Stopped, Branch, Classes
<1> QED
  BY <1>1 DEF IsReader

LEMMA CoordinateUnmarked == \A t \in 0 .. 255 : t \notin {Branch} \cup Parts \cup Classes
BY SkeletonTokensAssumption DEF Branch, Classes

Own(r) == IF r.branch THEN r.cursor + 3 ELSE r.cursor

LEMMA ReadPoints ==
  ASSUME NEW s, NEW r, IsReader(r), ~Stopped(s, r), s[r.cursor] \in 0 .. 255,
         HasPoint(s, r.cursor), r.branch => HasPoint(s, r.cursor + 3)
  PROVE  LET current == SubSeq(s, Own(r), Own(r) + 2)
             start == IF r.branch THEN SubSeq(s, r.cursor, r.cursor + 2)
                      ELSE IF r.previous # NoPoint THEN r.previous ELSE current
         IN Read(s, r) = [cursor |-> Own(r) + 3, branch |-> FALSE, previous |-> current,
                          cells |-> Append(r.cells, current),
                          parents |-> Append(r.parents, Closest(r.cells, start)),
                          failed |-> r.failed]
<1>1. Read(s, r) = PointsRead(s, r)
  BY CoordinateUnmarked DEF Read, Stopped
<1> QED
  BY <1>1 DEF PointsRead, IsReader, Own

LEMMA ReadFails ==
  ASSUME NEW s, NEW r, IsReader(r), ~Stopped(s, r), s[r.cursor] \in 0 .. 255,
         r.branch, ~HasPoint(s, r.cursor + 3)
  PROVE  Read(s, r) = [cursor |-> r.cursor, branch |-> r.branch, previous |-> r.previous,
                       cells |-> r.cells, parents |-> r.parents, failed |-> TRUE]
<1>1. Read(s, r) = [r EXCEPT !.failed = TRUE]
  BY CoordinateUnmarked DEF Read, Stopped
<1> QED
  BY <1>1 DEF IsReader

(* A branch token that no two points follow: its parent's and its own.     *)
Dangling(s) == \E i \in DOMAIN s : s[i] = Branch /\ s[i + 4] \notin 0 .. 255

(* The reader after n rounds has kept pace with the parser, or has come    *)
(* upon such a branch.                                                     *)
InStep(s, r) ==
  LET p == ParsedTo(s, r.cursor - 1)
  IN /\ ~r.failed
     /\ r.cursor \in 2 .. Len(s)
     /\ p.state \in Boundary
     /\ r.cells \in Seq(Seq(Nat)) /\ Len(r.cells) = p.joints
     /\ r.cells # <<>> => r.cursor >= 6
     /\ r.branch \in BOOLEAN /\ (r.branch <=> p.branchHalf)
     /\ r.branch => p.state = "joint" /\ s[r.cursor - 1] = Branch
     /\ \A i \in 1 .. r.cursor - 1 :
          s[i] = Branch => s[i + 4] \in 0 .. 255 \/ (i = r.cursor - 1 /\ r.branch)

Following(s, r, n) ==
  /\ IsReader(r)
  /\ \/ r.failed /\ Dangling(s)
     \/ InStep(s, r) /\ (r.cursor >= n + 2 \/ r.cursor = Len(s))

LEMMA FollowingStart ==
  ASSUME NEW s, WellFormed(s)
  PROVE  Following(s, ReaderStart, 0)
<1>1. Len(s) \in Nat /\ Len(s) > 2 /\ s[1] = Bos
  BY LenProperties DEF WellFormed
<1>2. ParsedTo(s, 0) = Fresh
  BY ParsePrefix DEF ParsedTo, WellFormed
<1>3. /\ ParsedTo(s, 1).state = "first" /\ ParsedTo(s, 1).joints = 0
      /\ ~ParsedTo(s, 1).branchHalf
  <2>1. 1 \in 1 .. Len(s) /\ 1 - 1 = 0
    BY <1>1
  <2>2. /\ ParsedTo(s, 1).state = StateAfter("bos", Bos)
        /\ ParsedTo(s, 1).joints = 0
        /\ ~ParsedTo(s, 1).branchHalf
    BY <1>1, <1>2, <2>1, TokenAccepted DEF Fresh, Bos, Branch
  <2>3. StateAfter("bos", Bos) = "first"
    BY DEF StateAfter
  <2> QED
    BY <2>2, <2>3
<1>4. IsReader(ReaderStart)
  BY DEF IsReader, ReaderStart
<1>5. InStep(s, ReaderStart)
  <2>1. ReaderStart.cursor = 2 /\ ~ReaderStart.failed /\ ReaderStart.cells = <<>>
        /\ ReaderStart.branch = FALSE
    BY DEF ReaderStart
  <2>2. <<>> \in Seq(Seq(Nat)) /\ Len(<<>>) = 0
    OBVIOUS
  <2>3. \A i \in 1 .. 1 : s[i] # Branch
    BY <1>1 DEF Bos, Branch
  <2>4. ReaderStart.cursor - 1 = 1 /\ ReaderStart.cursor \in 2 .. Len(s)
    BY <1>1, <2>1
  <2>5. ParsedTo(s, 1).state \in Boundary
    BY <1>3 DEF Boundary
  <2> QED
    BY <1>3, <2>1, <2>2, <2>3, <2>4, <2>5 DEF InStep
<1> QED
  BY <1>4, <1>5 DEF Following, ReaderStart

(* One round from a moment in step, by what the next token is.             *)
LEMMA BranchInStep ==
  ASSUME NEW s, WellFormed(s), NEW r, IsReader(r), InStep(s, r), ~Stopped(s, r),
         s[r.cursor] = Branch
  PROVE  /\ IsReader(Read(s, r)) /\ InStep(s, Read(s, r))
         /\ Read(s, r).cursor > r.cursor
<1> DEFINE c == r.cursor
           q == Read(s, r)
           p(i) == ParsedTo(s, i)
<1>1. Len(s) \in Nat /\ c \in 2 .. Len(s) /\ c < Len(s)
  BY LenProperties DEF WellFormed, InStep, Stopped
<1>2. q = [cursor |-> c + 1, branch |-> TRUE, previous |-> NoPoint,
           cells |-> r.cells, parents |-> r.parents, failed |-> r.failed]
  BY ReadBranch
<1>3. /\ p(c - 1) \in ParserStates /\ p(c - 1).state \in Boundary
      /\ StateAfter(p(c - 1).state, Branch) # "error"
      /\ p(c).state = StateAfter(p(c - 1).state, Branch)
      /\ p(c).joints =
           p(c - 1).joints + (IF p(c - 1).state = "joint_3" /\ ~p(c - 1).branchHalf THEN 1 ELSE 0)
      /\ p(c).branchHalf
  BY <1>1, TokenAccepted DEF InStep
<1>4. p(c - 1).state = "between" /\ StateAfter("between", Branch) = "joint"
  BY <1>3, BranchAtBoundary
<1>5. p(c).state = "joint" /\ p(c).joints = p(c - 1).joints
  BY <1>3, <1>4 DEF ParserStates
<1>6. ~r.branch
  BY <1>4 DEF InStep
<1> HIDE DEF q, p
<1>7. \A i \in 1 .. c :
        s[i] = Branch => s[i + 4] \in 0 .. 255 \/ i = c
  BY <1>1, <1>6 DEF InStep
<1>8. InStep(s, q)
  <2>1. q.cursor = c + 1 /\ q.branch = TRUE /\ q.cells = r.cells /\ q.failed = r.failed
    BY <1>2
  <2>2. q.cursor - 1 = c /\ q.cursor \in 2 .. Len(s)
    BY <1>1, <2>1
  <2>3. /\ ~r.failed /\ r.cells \in Seq(Seq(Nat)) /\ Len(r.cells) = p(c - 1).joints
        /\ r.cells # <<>> => c >= 6
    BY DEF InStep, p
  <2>4. q.cells # <<>> => q.cursor >= 6
    BY <1>1, <2>1, <2>3
  <2> QED
    BY <1>3, <1>5, <1>7, <2>1, <2>2, <2>3, <2>4 DEF InStep, p, Boundary
<1> QED
  BY <1>1, <1>2, <1>8 DEF IsReader, q

LEMMA MarkInStep ==
  ASSUME NEW s, WellFormed(s), NEW r, IsReader(r), InStep(s, r), ~Stopped(s, r),
         s[r.cursor] \in Parts \cup Classes
  PROVE  /\ IsReader(Read(s, r)) /\ InStep(s, Read(s, r))
         /\ Read(s, r).cursor > r.cursor
<1> DEFINE c == r.cursor
           q == Read(s, r)
           p(i) == ParsedTo(s, i)
<1>1. Len(s) \in Nat /\ c \in 2 .. Len(s) /\ c < Len(s)
  BY LenProperties DEF WellFormed, InStep, Stopped
<1>2. q = [cursor |-> c + 1, branch |-> r.branch, previous |-> r.previous,
           cells |-> r.cells, parents |-> r.parents, failed |-> r.failed]
  BY ReadMark
<1>3. /\ p(c - 1) \in ParserStates /\ p(c - 1).state \in Boundary
      /\ StateAfter(p(c - 1).state, s[c]) # "error"
      /\ p(c).state = StateAfter(p(c - 1).state, s[c])
      /\ p(c).joints =
           p(c - 1).joints + (IF p(c - 1).state = "joint_3" /\ ~p(c - 1).branchHalf THEN 1 ELSE 0)
      /\ p(c).branchHalf <=> s[c] = Branch \/ (p(c - 1).branchHalf /\ p(c - 1).state # "joint_3")
  BY <1>1, TokenAccepted DEF InStep
<1>4. p(c - 1).state # "joint" /\ p(c).state \in {"joint", "part_or_joint"}
  BY <1>3, MarkAtBoundary
<1>5. ~r.branch /\ ~p(c - 1).branchHalf
  BY <1>4 DEF InStep
<1>6. s[c] # Branch
  BY SkeletonTokensAssumption DEF Branch, Classes
<1>7. ~p(c).branchHalf /\ p(c).joints = p(c - 1).joints
  BY <1>3, <1>5, <1>6 DEF ParserStates, Boundary
<1> HIDE DEF q, p
<1>8. \A i \in 1 .. c : s[i] = Branch => s[i + 4] \in 0 .. 255
  BY <1>1, <1>5, <1>6 DEF InStep
<1>9. InStep(s, q)
  <2>1. q.cursor = c + 1 /\ q.branch = r.branch /\ q.cells = r.cells /\ q.failed = r.failed
    BY <1>2
  <2>2. q.cursor - 1 = c /\ q.cursor \in 2 .. Len(s)
    BY <1>1, <2>1
  <2>3. /\ ~r.failed /\ r.cells \in Seq(Seq(Nat)) /\ Len(r.cells) = p(c - 1).joints
        /\ r.cells # <<>> => c >= 6
        /\ r.branch \in BOOLEAN
    BY DEF InStep, p
  <2>4. q.cells # <<>> => q.cursor >= 6
    BY <1>1, <2>1, <2>3
  <2>5. p(c).state \in Boundary
    BY <1>4 DEF Boundary
  <2> QED
    BY <1>5, <1>7, <1>8, <2>1, <2>2, <2>3, <2>4, <2>5 DEF InStep, p
<1> QED
  BY <1>1, <1>2, <1>9 DEF IsReader, q

LEMMA NoPointAt ==
  ASSUME NEW s, NEW at \in Nat, s[at] \notin 0 .. 255
  PROVE  ~HasPoint(s, at)
<1>1. at \in at .. at + 2
  OBVIOUS
<1> QED
  BY <1>1 DEF HasPoint

LEMMA DanglingAt ==
  ASSUME NEW s \in Seq(Nat), NEW i \in 1 .. Len(s), s[i] = Branch, s[i + 4] \notin 0 .. 255
  PROVE  Dangling(s)
<1>1. i \in DOMAIN s
  BY LenProperties
<1> QED
  BY <1>1 DEF Dangling

(* Coordinates are no branch tokens.                                       *)
LEMMA BranchesBefore ==
  ASSUME NEW s, NEW c \in Nat, NEW e \in Nat,
         \A i \in 1 .. c - 1 : s[i] = Branch => s[i + 4] \in 0 .. 255,
         \A i \in c .. e : s[i] \in 0 .. 255
  PROVE  \A i \in 1 .. e : s[i] = Branch => s[i + 4] \in 0 .. 255
<1> SUFFICES ASSUME NEW i \in 1 .. e, s[i] = Branch
             PROVE  s[i + 4] \in 0 .. 255
  OBVIOUS
<1>1. \A t \in 0 .. 255 : t # Branch
  BY DEF Branch
<1>2. i \notin c .. e
  BY <1>1
<1>3. i \in 1 .. c - 1
  BY <1>2
<1> QED
  BY <1>3

LEMMA BranchAnswered ==
  ASSUME NEW s, NEW c \in Nat, NEW d \in Nat, d = c + 3, s[d] \in 0 .. 255, NEW open,
         \A i \in 1 .. c - 1 :
           s[i] = Branch => s[i + 4] \in 0 .. 255 \/ (i = c - 1 /\ open)
  PROVE  \A i \in 1 .. c - 1 : s[i] = Branch => s[i + 4] \in 0 .. 255
<1> SUFFICES ASSUME NEW i \in 1 .. c - 1, s[i] = Branch
             PROVE  s[i + 4] \in 0 .. 255
  OBVIOUS
<1>1. i = c - 1 => i + 4 = d
  OBVIOUS
<1> QED
  BY <1>1

LEMMA PointSequence ==
  ASSUME NEW s \in Seq(Nat), NEW at \in Nat, at >= 1, at + 2 < Len(s)
  PROVE  SubSeq(s, at, at + 2) \in Seq(Nat)
<1>1. Len(s) \in Nat /\ \A i \in 1 .. Len(s) : s[i] \in Nat
  BY LenProperties, ElementOfSeq
<1>2. \A i \in at .. at + 2 : s[i] \in Nat
  BY <1>1
<1> QED
  BY <1>2, SubSeqProperties

LEMMA PointInStep ==
  ASSUME NEW s, WellFormed(s), NEW r, IsReader(r), InStep(s, r), ~Stopped(s, r),
         s[r.cursor] \in 0 .. 255
  PROVE  /\ IsReader(Read(s, r))
         /\ \/ Read(s, r).failed /\ Dangling(s)
            \/ InStep(s, Read(s, r)) /\ Read(s, r).cursor > r.cursor
<1> DEFINE q == Read(s, r)
           p(i) == ParsedTo(s, i)
<1>1. /\ Len(s) \in Nat /\ \A i \in 1 .. Len(s) : s[i] \in Nat
  BY LenProperties, ElementOfSeq DEF WellFormed
<1>11. s \in Seq(Nat)
  BY DEF WellFormed
<1>0. r.cursor \in 3 .. Len(s) /\ r.cursor < Len(s)
  <2>1. r.cursor \in 2 .. Len(s) /\ r.cursor < Len(s)
    BY <1>1 DEF InStep, Stopped
  <2>2. s[2] = 266
    BY DEF WellFormed, Articulation
  <2>3. r.cursor # 2
    BY <2>2
  <2> QED
    BY <1>1, <2>1, <2>3
<1>2. PICK c \in Nat : c = r.cursor /\ c \in 3 .. Len(s) /\ c < Len(s)
  BY <1>0, <1>1
<1>3. s[c] \in 0 .. 255
  BY <1>2
<1>31. s[c] < 256
  BY <1>3
<1>4. /\ c + 2 < Len(s)
      /\ \A i \in c .. c + 2 : s[i] \in 0 .. 255
      /\ p(c + 2).state = "between"
      /\ ~p(c + 2).branchHalf
      /\ p(c + 2).joints = p(c - 1).joints + (IF p(c - 1).branchHalf THEN 0 ELSE 1)
  BY <1>2, <1>31, PointAhead DEF InStep
<1>5. HasPoint(s, c)
  BY <1>1, <1>2, <1>4 DEF HasPoint
<1>6. /\ ~r.failed /\ r.cells \in Seq(Seq(Nat)) /\ Len(r.cells) = p(c - 1).joints
      /\ r.branch \in BOOLEAN /\ (r.branch <=> p(c - 1).branchHalf)
      /\ r.branch => s[c - 1] = Branch
      /\ \A i \in 1 .. c - 1 :
           s[i] = Branch => s[i + 4] \in 0 .. 255 \/ (i = c - 1 /\ r.branch)
  BY <1>2 DEF InStep
<1>7. PICK d \in Nat : d = c + 3
  OBVIOUS
<1> HIDE DEF p
<1>8. CASE ~r.branch
  <2> DEFINE point == SubSeq(s, c, c + 2)
  <2>1. /\ q.cursor = c + 3 /\ q.branch = FALSE /\ q.cells = Append(r.cells, point)
        /\ q.failed = r.failed /\ IsReader(q)
    <3>1. Own(r) = c
      BY <1>2, <1>8 DEF Own
    <3>2. HasPoint(s, r.cursor)
      BY <1>2, <1>5
    <3>3. PICK start :
            q = [cursor |-> Own(r) + 3, branch |-> FALSE, previous |-> SubSeq(s, Own(r), Own(r) + 2),
                 cells |-> Append(r.cells, SubSeq(s, Own(r), Own(r) + 2)),
                 parents |-> Append(r.parents, Closest(r.cells, start)),
                 failed |-> r.failed]
      BY <1>8, <3>2, ReadPoints
    <3> QED
      BY <3>1, <3>3 DEF IsReader
  <2>2. point \in Seq(Nat)
    BY <1>11, <1>2, <1>4, PointSequence
  <2> HIDE DEF point, q
  <2>3. q.cells \in Seq(Seq(Nat)) /\ Len(q.cells) = p(c + 2).joints
    <3>1. Append(r.cells, point) \in Seq(Seq(Nat)) /\ Len(Append(r.cells, point)) = Len(r.cells) + 1
      BY <1>6, <2>2, AppendProperties
    <3> QED
      BY <1>4, <1>6, <1>8, <2>1, <3>1
  <2>4. \A i \in 1 .. c + 2 : s[i] = Branch => s[i + 4] \in 0 .. 255
    <3>1. \A i \in 1 .. c - 1 : s[i] = Branch => s[i + 4] \in 0 .. 255
      BY <1>6, <1>8
    <3>2. c + 2 \in Nat
      OBVIOUS
    <3> QED
      BY <1>4, <3>1, <3>2, BranchesBefore
  <2>5. q.cursor - 1 = c + 2 /\ q.cursor \in 2 .. Len(s) /\ q.cursor >= 6 /\ q.cursor > c
    BY <1>1, <1>2, <1>4, <2>1
  <2>6. InStep(s, q)
    BY <1>4, <1>6, <2>1, <2>3, <2>4, <2>5 DEF InStep, Boundary, p
  <2> QED
    BY <1>2, <2>1, <2>5, <2>6 DEF q
<1>9. CASE r.branch /\ s[d] \in 0 .. 255
  <2> DEFINE point == SubSeq(s, d, d + 2)
  <2>1. /\ d + 2 < Len(s)
        /\ \A i \in d .. d + 2 : s[i] \in 0 .. 255
        /\ p(d + 2).state = "between"
        /\ ~p(d + 2).branchHalf
        /\ p(d + 2).joints = p(c + 2).joints + 1
    <3>1. d \in 1 .. Len(s) /\ d - 1 = c + 2
      BY <1>1, <1>2, <1>4, <1>7
    <3>2. s[d] < 256
      BY <1>9
    <3>3. ParsedTo(s, d - 1).state \in Boundary
      BY <1>4, <3>1 DEF Boundary, p
    <3>4. /\ d + 2 < Len(s)
          /\ \A i \in d .. d + 2 : s[i] \in 0 .. 255
          /\ ParsedTo(s, d + 2).state = "between"
          /\ ~ParsedTo(s, d + 2).branchHalf
          /\ ParsedTo(s, d + 2).joints = ParsedTo(s, d - 1).joints
                + (IF ParsedTo(s, d - 1).branchHalf THEN 0 ELSE 1)
      BY <3>1, <3>2, <3>3, PointAhead
    <3> QED
      BY <1>4, <3>1, <3>4 DEF p
  <2>2. HasPoint(s, d)
    BY <1>1, <2>1 DEF HasPoint
  <2>3. /\ q.cursor = d + 3 /\ q.branch = FALSE /\ q.cells = Append(r.cells, point)
        /\ q.failed = r.failed /\ IsReader(q)
    <3>1. Own(r) = d
      BY <1>2, <1>9, <1>7 DEF Own
    <3>2. HasPoint(s, r.cursor + 3)
      BY <1>2, <1>7, <2>2
    <3>3. HasPoint(s, r.cursor) /\ r.branch
      BY <1>2, <1>5, <1>9
    <3>4. q = [cursor |-> Own(r) + 3, branch |-> FALSE, previous |-> SubSeq(s, Own(r), Own(r) + 2),
               cells |-> Append(r.cells, SubSeq(s, Own(r), Own(r) + 2)),
               parents |-> Append(r.parents, Closest(r.cells, SubSeq(s, r.cursor, r.cursor + 2))),
               failed |-> r.failed]
      BY <3>2, <3>3, ReadPoints
    <3> QED
      BY <3>1, <3>4 DEF IsReader
  <2>4. point \in Seq(Nat)
    <3>1. d >= 1
      BY <1>2, <1>7
    <3> QED
      BY <1>11, <2>1, <3>1, PointSequence
  <2> HIDE DEF point, q
  <2>5. q.cells \in Seq(Seq(Nat)) /\ Len(q.cells) = p(d + 2).joints
    <3>1. Append(r.cells, point) \in Seq(Seq(Nat)) /\ Len(Append(r.cells, point)) = Len(r.cells) + 1
      BY <1>6, <2>4, AppendProperties
    <3>2. p(c - 1).joints = Len(r.cells) /\ Len(r.cells) \in Nat
      BY <1>6, LenProperties
    <3> QED
      BY <1>4, <1>6, <1>9, <2>1, <2>3, <3>1, <3>2
  <2>6. \A i \in 1 .. d + 2 : s[i] = Branch => s[i + 4] \in 0 .. 255
    <3>1. \A i \in 1 .. c - 1 : s[i] = Branch => s[i + 4] \in 0 .. 255
      BY <1>6, <1>7, <1>9, BranchAnswered
    <3>2. \A i \in c .. d + 2 : s[i] \in 0 .. 255
      <4> TAKE i \in c .. d + 2
      <4>1. i \in c .. c + 2 \/ i \in d .. d + 2
        BY <1>7
      <4> QED
        BY <1>4, <2>1, <4>1
    <3>3. d + 2 \in Nat
      OBVIOUS
    <3> QED
      BY <3>1, <3>2, <3>3, BranchesBefore
  <2>7. q.cursor - 1 = d + 2 /\ q.cursor \in 2 .. Len(s) /\ q.cursor >= 6 /\ q.cursor > c
    <3>1. q.cursor = d + 3 /\ d + 2 < Len(s) /\ d = c + 3 /\ c >= 3 /\ Len(s) \in Nat
      BY <1>1, <1>2, <1>7, <2>1, <2>3
    <3> QED
      BY <3>1
  <2>8. InStep(s, q)
    BY <1>6, <2>1, <2>3, <2>5, <2>6, <2>7 DEF InStep, Boundary, p
  <2> QED
    BY <1>2, <2>3, <2>7, <2>8 DEF q
<1>10. CASE r.branch /\ s[d] \notin 0 .. 255
  <2>1. ~HasPoint(s, r.cursor + 3)
    BY <1>2, <1>10, <1>7, NoPointAt
  <2>2. q.failed /\ IsReader(q)
    BY <1>10, <2>1, ReadFails DEF IsReader
  <2>3. c - 1 \in 1 .. Len(s) /\ s[c - 1] = Branch /\ (c - 1) + 4 = d
    <3>1. c - 1 \in 1 .. Len(s)
      BY <1>1, <1>2
    <3>2. s[c - 1] = Branch
      BY <1>6, <1>10
    <3> QED
      BY <1>7, <3>1, <3>2
  <2>4. Dangling(s)
    BY <1>10, <1>11, <2>3, DanglingAt
  <2> QED
    BY <2>2, <2>4
<1> QED
  BY <1>6, <1>8, <1>9, <1>10

(* Every round ends in step, or stopped for good.                          *)
LEMMA RoundFollows ==
  ASSUME NEW s, WellFormed(s), NEW r, NEW n \in Nat, Following(s, r, n)
  PROVE  Following(s, Read(s, r), n + 1)
<1>1. IsReader(r)
  BY DEF Following
<1>2. Len(s) \in Nat /\ \A i \in 1 .. Len(s) : s[i] \in Nat
  BY LenProperties, ElementOfSeq DEF WellFormed
<1>3. CASE r.failed
  <2>1. Dangling(s)
    BY <1>3 DEF Following, InStep
  <2>2. Read(s, r) = r
    BY <1>3, ReadStopped DEF Stopped
  <2> QED
    BY <1>1, <1>3, <2>1, <2>2 DEF Following
<1>4. CASE ~r.failed /\ Stopped(s, r)
  <2>1. InStep(s, r)
    BY <1>4 DEF Following
  <2>2. r.cursor \in 2 .. Len(s) /\ (r.cursor >= Len(s) \/ s[r.cursor] = End)
    BY <1>4, <2>1 DEF InStep, Stopped
  <2>3. \A i \in 1 .. Len(s) - 1 : s[i] # End
    BY DEF WellFormed
  <2>4. r.cursor = Len(s)
    BY <1>2, <2>2, <2>3
  <2>5. Read(s, r) = r
    BY <1>4, ReadStopped
  <2> QED
    BY <1>1, <2>1, <2>4, <2>5 DEF Following
<1>5. CASE ~r.failed /\ ~Stopped(s, r)
  <2> DEFINE q == Read(s, r)
  <2>1. /\ InStep(s, r) /\ (r.cursor >= n + 2 \/ r.cursor = Len(s))
        /\ r.cursor \in 2 .. Len(s) /\ r.cursor < Len(s) /\ s[r.cursor] # End
    BY <1>2, <1>5 DEF Following, InStep, Stopped
  <2>2. r.cursor \in 1 .. Len(s) /\ s[r.cursor] \in Nat /\ r.cursor >= n + 2
    BY <1>2, <2>1
  <2>3. StateAfter(ParsedTo(s, r.cursor - 1).state, s[r.cursor]) # "error"
    BY <2>2, TokenAccepted
  <2>4. ParsedTo(s, r.cursor - 1).state \in Boundary
    BY <2>1 DEF InStep
  <2>5. \/ s[r.cursor] \in 0 .. 255
        \/ s[r.cursor] = Branch
        \/ s[r.cursor] \in Parts \cup Classes
    BY <2>1, <2>2, <2>3, <2>4, OthersRejected, Byte
  <2>6. /\ IsReader(q)
        /\ \/ q.failed /\ Dangling(s)
           \/ InStep(s, q) /\ q.cursor > r.cursor
    BY <1>1, <1>5, <2>1, <2>5, PointInStep, BranchInStep, MarkInStep
  <2> HIDE DEF q
  <2>7. InStep(s, q) /\ q.cursor > r.cursor => q.cursor >= (n + 1) + 2
    BY <1>2, <2>1, <2>2 DEF InStep
  <2> QED
    BY <2>6, <2>7 DEF Following, q
<1> QED
  BY <1>3, <1>4, <1>5

(* On any skeleton the generator's grammar lets through, the reader stops  *)
(* only at a branch without two points after it, and otherwise counts the  *)
(* joints the parser counted (model.cpp:889).                              *)
THEOREM ReaderFollowsParser ==
  ASSUME NEW s, WellFormed(s), NEW max \in Nat, Parse(s).joints \in 1 .. max
  PROVE  LET reader == Detokenized(s, max)
         IN /\ reader.ok <=> ~Dangling(s)
            /\ reader.ok => Len(reader.cells) = Parse(s).joints
<1> DEFINE end == ReaderAfter(s)[Len(s)]
           S == {n \in Nat : Following(s, ReaderAfter(s)[n], n)}
<1>1. Len(s) \in Nat /\ Len(s) > 2 /\ s[1] = Bos /\ s[Len(s)] = End
  BY LenProperties DEF WellFormed
<1>2. Following(s, end, Len(s))
  <2>1. 0 \in S
    BY <1>1, ReaderSteps, FollowingStart
  <2>2. ASSUME NEW n \in 0 .. Len(s) - 1, n \in S
        PROVE  n + 1 \in S
    BY <1>1, <2>2, ReaderSteps, RoundFollows
  <2> HIDE DEF S
  <2>3. 0 .. Len(s) \subseteq S
    BY <1>1, <2>1, <2>2, BoundedInduction
  <2> QED
    BY <1>1, <2>3 DEF S
<1> HIDE DEF end
<1>3. CASE end.failed
  <2>1. Dangling(s)
    BY <1>2, <1>3 DEF Following, InStep
  <2> QED
    BY <1>3, <2>1 DEF Detokenized, end
<1>4. CASE ~end.failed
  <2> DEFINE p == ParsedTo(s, Len(s) - 1)
  <2>1. InStep(s, end) /\ end.cursor = Len(s)
    BY <1>1, <1>2, <1>4 DEF Following, InStep
  <2>2. p.state \in Boundary /\ Len(end.cells) = p.joints
        /\ (end.cells # <<>> => Len(s) >= 6) /\ (end.branch => p.state = "joint")
    BY <2>1 DEF InStep
  <2>3. /\ p \in ParserStates
        /\ StateAfter(p.state, End) # "error"
        /\ ParsedTo(s, Len(s)).joints =
             p.joints + (IF p.state = "joint_3" /\ ~p.branchHalf THEN 1 ELSE 0)
    BY <1>1, TokenAccepted
  <2>4. p.state \in {"part_or_joint", "between"}
    BY <2>2, <2>3, EndAtBoundary
  <2>5. ParsedTo(s, Len(s)) = Parse(s)
    BY ParsePrefix DEF ParsedTo, WellFormed
  <2>6. Parse(s).joints = Len(end.cells) /\ ~end.branch
    BY <2>2, <2>3, <2>4, <2>5 DEF ParserStates
  <2>7. Len(end.cells) \in 1 .. max /\ Len(s) >= 6
    <3>1. end.cells # <<>>
      BY <2>6
    <3> QED
      BY <2>2, <2>6, <3>1
  <2>8. ~Dangling(s)
    <3> SUFFICES ASSUME NEW i \in 1 .. Len(s), s[i] = Branch
                 PROVE  s[i + 4] \in 0 .. 255
      BY LenProperties DEF Dangling, WellFormed
    <3>1. i # Len(s)
      BY <1>1 DEF Branch, End
    <3>2. i \in 1 .. end.cursor - 1
      BY <1>1, <2>1, <3>1
    <3> QED
      BY <2>1, <2>6, <3>2 DEF InStep
  <2>9. Detokenized(s, max).ok /\ Detokenized(s, max).cells = end.cells
    BY <1>1, <1>4, <2>7 DEF Detokenized, end
  <2> QED
    BY <2>6, <2>8, <2>9
<1> QED
  BY <1>3, <1>4
-----------------------------------------------------------------------------
(* The writer: cells written one after the other, each a sentence of the   *)
(* grammar.                                                                *)

(* Written and read, a coordinate moves up by at most a cell; only at the  *)
(* upper end it moves down.                                                *)
LEMMA Moved ==
  ASSUME NEW p \in Positions
  PROVE  LET moved == Coordinate(Discrete(p)) - p
         IN /\ Discrete(p) \in 0 .. 255
            /\ IF p > 1022 THEN moved \in -2 .. -1 ELSE moved \in 0 .. 4
BY DEF Positions, Discrete, Coordinate

(* The writer.                                                             *)
CellsAndParents(cells, ps) ==
  /\ cells \in Seq(Seq(Nat)) /\ Len(cells) \in Nat \ {0}
  /\ \A j \in 1 .. Len(cells) :
       \E x, y, z \in Coordinates : cells[j] = <<x, y, z>>
  /\ \A j \in 2 .. Len(cells) : ps[j] \in 0 .. j - 2

(* The writer's concatenation under a name of its own: the provers would   *)
(* otherwise expand it in every step.                                      *)
Joined(s, t) == s \o t

LEMMA JoinedAssociative ==
  ASSUME NEW s \in Seq(Nat), NEW t \in Seq(Nat), NEW u \in Seq(Nat)
  PROVE  Joined(s, Joined(t, u)) = Joined(Joined(s, t), u)
<1>1. (s \o t) \o u = s \o (t \o u)
  BY ConcatAssociative
<1> QED
  BY <1>1 DEF Joined

(* FlattenSeq unfolded: g[i] joins the first i of seqs.                    *)
FlatRun(seqs, k, g) ==
  g[1] = seqs[1] /\ \A i \in 2 .. k : g[i] = Joined(g[i - 1], seqs[i])

LEMMA FlattenUnfolds ==
  ASSUME NEW seqs, Len(seqs) \in Nat \ {0}
  PROVE  \E f : FlatRun(seqs, Len(seqs), f) /\ FlattenSeq(seqs) = f[Len(seqs)]
<1> DEFINE S == {k \in Nat : \E g : FlatRun(seqs, k, g)}
<1>1. 0 \in S
  <2> DEFINE g == [n \in 1 .. 1 |-> seqs[1]]
  <2>1. FlatRun(seqs, 0, g)
    BY DEF FlatRun
  <2> QED
    BY <2>1
<1>2. ASSUME NEW k \in Nat, k \in S
      PROVE  k + 1 \in S
  <2>1. PICK g : FlatRun(seqs, k, g)
    BY <1>2
  <2> DEFINE h == [n \in 1 .. k + 1 |->
                     IF n = 1 THEN seqs[1] ELSE IF n <= k THEN g[n] ELSE Joined(g[k], seqs[k + 1])]
  <2>2. /\ h[1] = seqs[1]
        /\ \A n \in 2 .. k : h[n] = g[n]
        /\ k >= 1 => h[k + 1] = Joined(g[k], seqs[k + 1])
    OBVIOUS
  <2> HIDE DEF h
  <2>3. \A n \in 1 .. k : h[n] = g[n]
    BY <2>1, <2>2 DEF FlatRun
  <2>4. ASSUME NEW n \in 2 .. k + 1
        PROVE  h[n] = Joined(h[n - 1], seqs[n])
    <3>1. n - 1 \in 1 .. k /\ h[n - 1] = g[n - 1]
      BY <2>3
    <3>2. CASE n <= k
      BY <2>1, <2>2, <3>1, <3>2 DEF FlatRun
    <3>3. CASE n = k + 1
      <4>1. k >= 1 /\ n - 1 = k
        BY <3>3
      <4> QED
        BY <2>2, <3>1, <3>3, <4>1
    <3> QED
      BY <3>2, <3>3
  <2>5. FlatRun(seqs, k + 1, h)
    BY <2>2, <2>4 DEF FlatRun
  <2> QED
    BY <2>5
<1>3. Nat \subseteq S
  <2> HIDE DEF S
  <2> QED
    BY <1>1, <1>2, Induction
<1>4. PICK g : FlatRun(seqs, Len(seqs), g)
  BY <1>3
<1> DEFINE h == [n \in 1 .. Len(seqs) |-> g[n]]
           again == [n \in 1 .. Len(seqs) |->
                       IF n = 1 THEN seqs[n] ELSE Joined(h[n - 1], seqs[n])]
<1>5. ASSUME NEW n \in 1 .. Len(seqs)
      PROVE  h[n] = IF n = 1 THEN seqs[n] ELSE Joined(h[n - 1], seqs[n])
  <2>1. CASE n = 1
    BY <1>4, <2>1 DEF FlatRun
  <2>2. CASE n # 1
    <3>1. n \in 2 .. Len(seqs) /\ n - 1 \in 1 .. Len(seqs)
      BY <2>2
    <3>2. h[n] = g[n] /\ h[n - 1] = g[n - 1]
      BY <3>1
    <3> QED
      BY <1>4, <2>2, <3>1, <3>2 DEF FlatRun
  <2> QED
    BY <2>1, <2>2
<1>6. h = again
  BY <1>5
<1> HIDE DEF h
<1> DEFINE flat == CHOOSE f : f = [i \in 1 .. Len(seqs) |->
                                     IF i = 1 THEN seqs[i] ELSE Joined(f[i - 1], seqs[i])]
<1>7. flat = [i \in 1 .. Len(seqs) |-> IF i = 1 THEN seqs[i] ELSE Joined(flat[i - 1], seqs[i])]
  BY <1>6
<1>8. FlattenSeq(seqs) = flat[Len(seqs)]
  BY DEF FlattenSeq, Joined
<1> HIDE DEF flat
<1>9. FlatRun(seqs, Len(seqs), flat)
  BY <1>7 DEF FlatRun
<1> QED
  BY <1>8, <1>9

(* What the writer writes for a joint.                                     *)
LEMMA JointWritten ==
  ASSUME NEW cells, NEW ps, CellsAndParents(cells, ps)
  PROVE  /\ \A j \in 1 .. Len(cells) : cells[j] \in Seq(Nat)
         /\ \A j \in 1 .. Len(cells) : JointTokens(cells, ps, j) \in Seq(Nat)
<1>1. cells \in Seq(Seq(Nat))
  BY DEF CellsAndParents
<1>2. \A j \in 1 .. Len(cells) : cells[j] \in Seq(Nat)
  BY <1>1, ElementOfSeq
<1>3. ASSUME NEW j \in 1 .. Len(cells)
      PROVE  JointTokens(cells, ps, j) \in Seq(Nat)
  <2>1. cells[j] \in Seq(Nat)
    BY <1>2
  <2>2. CASE Branches(ps, j)
    <3>1. Len(cells) \in Nat /\ j \in 2 .. Len(cells)
      BY <2>2 DEF Branches, CellsAndParents
    <3>2. ps[j] \in 0 .. j - 2
      BY <3>1 DEF CellsAndParents
    <3>3. ps[j] + 1 \in 1 .. Len(cells)
      BY <3>1, <3>2
    <3>4. cells[ps[j] + 1] \in Seq(Nat)
      BY <1>2, <3>3
    <3>5. <<Branch>> \in Seq(Nat)
      BY DEF Branch
    <3>6. <<Branch>> \o cells[ps[j] + 1] \in Seq(Nat)
      BY <3>4, <3>5, ConcatProperties
    <3>7. JointTokens(cells, ps, j) = (<<Branch>> \o cells[ps[j] + 1]) \o cells[j]
      BY <2>2 DEF JointTokens
    <3> QED
      BY <2>1, <3>6, <3>7, ConcatProperties
  <2>3. CASE ~Branches(ps, j)
    BY <2>1, <2>3 DEF JointTokens
  <2> QED
    BY <2>2, <2>3
<1> QED
  BY <1>2, <1>3

LEMMA SequenceOf ==
  ASSUME NEW n \in Nat, NEW S, NEW f \in [1 .. n -> S]
  PROVE  f \in Seq(S) /\ Len(f) = n
OBVIOUS

(* T[j] is what has been written when j joints have.                       *)
Grows(cells, ps, T) ==
  /\ T[0] = <<Bos, Articulation>>
  /\ \A j \in 0 .. Len(cells) : T[j] \in Seq(Nat)
  /\ \A j \in 1 .. Len(cells) : T[j] = Joined(T[j - 1], JointTokens(cells, ps, j))

LEMMA WriterUnfolds ==
  ASSUME NEW cells, NEW ps, CellsAndParents(cells, ps)
  PROVE  \E T : Grows(cells, ps, T) /\ Tokenized(cells, ps) = Append(T[Len(cells)], End)
<1> DEFINE n == Len(cells)
           seqs == [joint \in DOMAIN cells |-> JointTokens(cells, ps, joint)]
           start == <<Bos, Articulation>>
<1>1. n \in Nat \ {0} /\ DOMAIN cells = 1 .. n
  BY LenProperties DEF CellsAndParents
<1>2. \A j \in 1 .. n : seqs[j] = JointTokens(cells, ps, j)
  BY <1>1
<1>3. seqs \in [1 .. n -> Seq(Nat)]
  BY <1>1, JointWritten
<1>4. Tokenized(cells, ps) = start \o FlattenSeq(seqs) \o <<End>>
  BY DEF Tokenized
<1> HIDE DEF seqs, n
<1>5. Len(seqs) = n
  BY <1>1, <1>3, SequenceOf
<1>6. \A j \in 1 .. n : seqs[j] \in Seq(Nat)
  BY <1>3
<1>7. PICK f : FlatRun(seqs, n, f) /\ FlattenSeq(seqs) = f[n]
  BY <1>1, <1>5, FlattenUnfolds
<1>8. start \in Seq(Nat)
  BY DEF Bos, Articulation
<1> HIDE DEF start
<1>9. \A j \in 1 .. n : f[j] \in Seq(Nat)
  <2> DEFINE S == {j \in Nat : j = 0 \/ f[j] \in Seq(Nat)}
  <2>1. 0 \in S
    OBVIOUS
  <2>2. ASSUME NEW j \in 0 .. n - 1, j \in S
        PROVE  j + 1 \in S
    <3>1. j + 1 \in 1 .. n /\ seqs[j + 1] \in Seq(Nat)
      BY <1>1, <1>6
    <3>2. CASE j = 0
      BY <1>7, <3>1, <3>2 DEF FlatRun
    <3>3. CASE j # 0
      <4>1. j + 1 \in 2 .. n /\ (j + 1) - 1 = j
        BY <1>1, <3>3
      <4>2. f[j + 1] = Joined(f[j], seqs[j + 1])
        BY <1>7, <4>1 DEF FlatRun
      <4>3. f[j] \in Seq(Nat)
        BY <2>2, <3>3
      <4>4. Joined(f[j], seqs[j + 1]) \in Seq(Nat)
        BY <3>1, <4>3, ConcatProperties DEF Joined
      <4> QED
        BY <4>2, <4>4
    <3> QED
      BY <3>2, <3>3
  <2> HIDE DEF S
  <2>3. 0 .. n \subseteq S
    BY <1>1, <2>1, <2>2, BoundedInduction
  <2> QED
    BY <1>1, <2>3 DEF S
<1> DEFINE T == [j \in 0 .. n |-> IF j = 0 THEN start ELSE Joined(start, f[j])]
<1>10. T[0] = start /\ \A j \in 1 .. n : T[j] = Joined(start, f[j])
  BY <1>1
<1> HIDE DEF T
<1>11. \A j \in 1 .. n : T[j] \in Seq(Nat)
  <2> TAKE j \in 1 .. n
  <2>1. f[j] \in Seq(Nat)
    BY <1>9
  <2>2. Joined(start, f[j]) \in Seq(Nat)
    BY <1>8, <2>1, ConcatProperties DEF Joined
  <2> QED
    BY <1>10, <2>2
<1>12. \A j \in 0 .. n : T[j] \in Seq(Nat)
  <2> TAKE j \in 0 .. n
  <2>1. CASE j = 0
    BY <1>8, <1>10, <2>1
  <2>2. CASE j # 0
    BY <1>1, <1>11, <2>2
  <2> QED
    BY <2>1, <2>2
<1>13. ASSUME NEW j \in 1 .. n
       PROVE  T[j] = Joined(T[j - 1], seqs[j])
  <2>1. CASE j = 1
    <3>1. f[1] = seqs[1] /\ T[1 - 1] = start
      BY <1>7, <1>10 DEF FlatRun
    <3> QED
      BY <1>10, <2>1, <3>1
  <2>2. CASE j # 1
    <3>1. j \in 2 .. n /\ j - 1 \in 1 .. n
      BY <1>1, <2>2
    <3>2. f[j] = Joined(f[j - 1], seqs[j])
      BY <1>7, <3>1 DEF FlatRun
    <3>3. f[j - 1] \in Seq(Nat) /\ seqs[j] \in Seq(Nat)
      BY <1>6, <1>9, <3>1
    <3>4. Joined(start, Joined(f[j - 1], seqs[j])) = Joined(Joined(start, f[j - 1]), seqs[j])
      BY <1>8, <3>3, JoinedAssociative
    <3>5. T[j - 1] = Joined(start, f[j - 1])
      BY <1>10, <3>1
    <3> QED
      BY <1>10, <3>2, <3>4, <3>5
  <2> QED
    BY <2>1, <2>2
<1>14. Grows(cells, ps, T)
  <2>1. ASSUME NEW j \in 1 .. Len(cells)
        PROVE  T[j] = Joined(T[j - 1], JointTokens(cells, ps, j))
    <3>1. j \in 1 .. n
      BY DEF n
    <3> QED
      BY <1>2, <1>13, <3>1
  <2>2. \A j \in 0 .. Len(cells) : T[j] \in Seq(Nat)
    BY <1>12 DEF n
  <2> QED
    BY <1>10, <2>1, <2>2 DEF Grows, start
<1>15. Tokenized(cells, ps) = Append(T[n], End)
  <2>1. n \in 1 .. n
    BY <1>1
  <2>2. T[n] \in Seq(Nat) /\ End \in Nat
    BY <1>11, <2>1 DEF End
  <2>4. T[n] = start \o FlattenSeq(seqs)
    BY <1>7, <1>10, <2>1 DEF Joined
  <2>3. Append(T[n], End) = T[n] \o <<End>>
    BY <2>2, AppendIsConcat
  <2> QED
    BY <1>4, <2>3, <2>4
<1> QED
  BY <1>14, <1>15 DEF n

(* Every token is one the mask would allow.                                *)
Spoken(s) ==
  s \in Seq(Nat) /\ \A i \in 1 .. Len(s) : s[i] \in Allowed(ParsedTo(s, i - 1))

LEMMA PrefixAppend ==
  ASSUME NEW s \in Seq(Nat), NEW id \in Nat, NEW k \in 0 .. Len(s)
  PROVE  Prefix(Append(s, id), k) = Prefix(s, k)
<1> DEFINE t == Append(s, id)
<1>1. Len(s) \in Nat
  BY LenProperties
<1>2. t \in Seq(Nat) /\ Len(t) = Len(s) + 1 /\ \A i \in 1 .. Len(s) : t[i] = s[i]
  BY AppendProperties
<1>3. \A i \in 1 .. Len(s) : s[i] \in Nat
  BY ElementOfSeq
<1> HIDE DEF t
<1>4. /\ SubSeq(s, 1, k) \in Seq(Nat) /\ Len(SubSeq(s, 1, k)) = IF 1 <= k THEN k - 1 + 1 ELSE 0
      /\ \A i \in 1 .. k - 1 + 1 : SubSeq(s, 1, k)[i] = s[1 + i - 1]
  BY <1>1, <1>3, SubSeqProperties
<1>5. /\ SubSeq(t, 1, k) \in Seq(Nat) /\ Len(SubSeq(t, 1, k)) = IF 1 <= k THEN k - 1 + 1 ELSE 0
      /\ \A i \in 1 .. k - 1 + 1 : SubSeq(t, 1, k)[i] = t[1 + i - 1]
  <2>1. \A i \in 1 .. k : t[i] \in Nat
    BY <1>1, <1>2, <1>3
  <2> QED
    BY <1>1, <2>1, SubSeqProperties
<1>6. \A i \in 1 .. Len(SubSeq(t, 1, k)) : SubSeq(t, 1, k)[i] = SubSeq(s, 1, k)[i]
  BY <1>1, <1>2, <1>4, <1>5
<1>7. SubSeq(t, 1, k) = SubSeq(s, 1, k)
  BY <1>4, <1>5, <1>6, SeqEqual
<1> QED
  BY <1>7 DEF Prefix, t

LEMMA SpokenAppend ==
  ASSUME NEW s, Spoken(s), NEW id \in Nat, id \in Allowed(Parse(s))
  PROVE  Spoken(Append(s, id)) /\ Parse(Append(s, id)) = Parsed(Parse(s), id)
<1> DEFINE t == Append(s, id)
<1>1. s \in Seq(Nat)
  BY DEF Spoken
<1>2. Len(s) \in Nat
  BY <1>1, LenProperties
<1>3. t \in Seq(Nat) /\ Len(t) = Len(s) + 1
      /\ (\A i \in 1 .. Len(s) : t[i] = s[i]) /\ t[Len(s) + 1] = id
  BY <1>1, AppendProperties
<1>4. \A k \in 0 .. Len(s) : Prefix(t, k) = Prefix(s, k)
  BY <1>1, PrefixAppend
<1>5. Prefix(s, Len(s)) = s
  BY <1>1, PrefixFacts
<1>6. Parse(t) = Parsed(Parse(s), id)
  BY <1>1, ParseAppend
<1> HIDE DEF t
<1>7. ASSUME NEW i \in 1 .. Len(t)
      PROVE  t[i] \in Allowed(ParsedTo(t, i - 1))
  <2>1. i - 1 \in 0 .. Len(s)
    BY <1>2, <1>3
  <2>2. ParsedTo(t, i - 1) = ParsedTo(s, i - 1)
    BY <1>4, <2>1 DEF ParsedTo
  <2>3. CASE i <= Len(s)
    <3>1. i \in 1 .. Len(s)
      BY <1>2, <1>3, <2>3
    <3> QED
      BY <1>3, <2>2, <3>1 DEF Spoken
  <2>4. CASE ~(i <= Len(s))
    <3>1. i = Len(s) + 1 /\ i - 1 = Len(s)
      BY <1>2, <1>3, <2>4
    <3>2. ParsedTo(s, i - 1) = Parse(s)
      BY <1>5, <3>1 DEF ParsedTo
    <3> QED
      BY <1>3, <2>2, <3>1, <3>2
  <2> QED
    BY <2>3, <2>4
<1>8. Spoken(t)
  BY <1>3, <1>7 DEF Spoken
<1> QED
  BY <1>6, <1>8 DEF t

LEMMA CellAppended ==
  ASSUME NEW s \in Seq(Nat), NEW x \in Nat, NEW y \in Nat, NEW z \in Nat
  PROVE  Joined(s, <<x, y, z>>) = Append(Append(Append(s, x), y), z)
<1>1. Append(s, x) \in Seq(Nat) /\ Append(Append(s, x), y) \in Seq(Nat)
      /\ Append(Append(Append(s, x), y), z) \in Seq(Nat)
  BY AppendProperties
<1> QED
  BY <1>1 DEF Joined

(* A token that the mask allows and the parser takes.                      *)
LEMMA TokenTaken ==
  ASSUME NEW s, Spoken(s), NEW id \in Nat, id \in Allowed(Parse(s)), ~Parse(s).ended,
         StateAfter(Parse(s).state, id) # "error"
  PROVE  LET p == Parse(s)
             q == Parse(Append(s, id))
         IN /\ Spoken(Append(s, id)) /\ q \in ParserStates /\ p \in ParserStates
            /\ q.state = StateAfter(p.state, id)
            /\ q.joints = p.joints + (IF p.state = "joint_3" /\ ~p.branchHalf THEN 1 ELSE 0)
            /\ q.ended <=> id = End
            /\ q.branchHalf <=> id = Branch \/ (p.branchHalf /\ p.state # "joint_3")
<1>1. s \in Seq(Nat)
  BY DEF Spoken
<1> DEFINE p == Parse(s)
<1>2. p \in ParserStates
  BY <1>1, ParseAppend
<1>3. Spoken(Append(s, id)) /\ Parse(Append(s, id)) = Parsed(p, id)
  BY SpokenAppend
<1>4. Parsed(p, id) \in ParserStates
  BY <1>2, ParsedState
<1>5. Parsed(p, id).state # "error"
  BY DEF Parsed
<1> QED
  BY <1>2, <1>3, <1>4, <1>5, Accepted

(* The three coordinates of a cell.                                        *)
LEMMA CellSpoken ==
  ASSUME NEW s, Spoken(s), Parse(s).state \in {"part_or_joint", "between", "joint"},
         ~Parse(s).ended,
         NEW x \in Coordinates, NEW y \in Coordinates, NEW z \in Coordinates
  PROVE  LET p == Parse(s)
             t == Joined(s, <<x, y, z>>)
             q == Parse(t)
         IN /\ Spoken(t)
            /\ q.state = "between" /\ ~q.ended /\ ~q.branchHalf
            /\ q.joints = p.joints + (IF p.branchHalf THEN 0 ELSE 1)
<1> DEFINE p == Parse(s)
           s1 == Append(s, x)
           s2 == Append(s1, y)
           s3 == Append(s2, z)
<1>1. Coordinates \subseteq 0 .. 255
  BY SkeletonTokensAssumption
<1>2. \A t \in Coordinates : t \in Nat /\ t < 256 /\ t # End /\ t # Branch /\ t # Bos
  BY <1>1 DEF End, Branch, Bos
<1>3. \A t \in Coordinates : /\ StateAfter("part_or_joint", t) = "joint_2"
                             /\ StateAfter("between", t) = "joint_2"
                             /\ StateAfter("joint", t) = "joint_2"
                             /\ StateAfter("joint_2", t) = "joint_3"
                             /\ StateAfter("joint_3", t) = "between"
  <2> TAKE t \in Coordinates
  <2>1. t \in Nat /\ t < 256
    BY <1>2
  <2>2. t \notin {Branch, End, Bos} \cup Parts \cup Classes
    <3>1. t \notin Parts
      BY <2>1, SkeletonTokensAssumption
    <3> QED
      BY <2>1, <3>1 DEF Branch, End, Bos, Classes
  <2> QED
    BY <2>1, <2>2 DEF StateAfter
<1>4. /\ x \in Allowed(p)
      /\ \A q : q.state = "joint_2" => y \in Allowed(q)
      /\ \A q : q.state = "joint_3" => z \in Allowed(q)
  BY DEF Allowed
<1>5. p.joints \in Nat /\ s \in Seq(Nat)
  <2>1. s \in Seq(Nat)
    BY DEF Spoken
  <2>2. p \in ParserStates
    BY <2>1, ParseAppend
  <2> QED
    BY <2>1, <2>2 DEF ParserStates
<1>6. /\ Spoken(s1) /\ Parse(s1).state = "joint_2" /\ ~Parse(s1).ended
      /\ Parse(s1).joints = p.joints /\ (Parse(s1).branchHalf <=> p.branchHalf)
  <2>1. StateAfter(p.state, x) = "joint_2"
    BY <1>3
  <2> QED
    BY <1>2, <1>4, <1>5, <2>1, TokenTaken
<1> HIDE DEF s1
<1>7. /\ Spoken(s2) /\ Parse(s2).state = "joint_3" /\ ~Parse(s2).ended
      /\ Parse(s2).joints = p.joints /\ (Parse(s2).branchHalf <=> p.branchHalf)
  <2>1. StateAfter(Parse(s1).state, y) = "joint_3"
    BY <1>3, <1>6
  <2> QED
    BY <1>2, <1>4, <1>5, <1>6, <2>1, TokenTaken
<1> HIDE DEF s2
<1>8. /\ Spoken(s3) /\ Parse(s3).state = "between" /\ ~Parse(s3).ended
      /\ Parse(s3).joints = p.joints + (IF p.branchHalf THEN 0 ELSE 1) /\ ~Parse(s3).branchHalf
  <2>1. StateAfter(Parse(s2).state, z) = "between"
    BY <1>3, <1>7
  <2> QED
    BY <1>2, <1>4, <1>5, <1>7, <2>1, TokenTaken
<1>9. Joined(s, <<x, y, z>>) = s3
  BY <1>2, <1>5, CellAppended DEF s1, s2
<1> HIDE DEF s3
<1> QED
  BY <1>8, <1>9

(* Between two joints, n of them written.                                  *)
Ready(s, n) ==
  /\ Spoken(s)
  /\ Parse(s).state = IF n = 0 THEN "part_or_joint" ELSE "between"
  /\ Parse(s).joints = n /\ ~Parse(s).ended /\ ~Parse(s).branchHalf

LEMMA StartSpoken == Ready(<<Bos, Articulation>>, 0)
<1>0. PICK s0 \in Seq(Nat) : s0 = <<>>
  BY EmptySeq
<1>1. Spoken(s0)
  <2>1. <<>> \in Seq(Nat) /\ Len(<<>>) = 0
    BY EmptySeq
  <2> QED
    BY <1>0, <2>1 DEF Spoken
<1>2. Parse(s0) = Fresh
  BY <1>0, ParseEmpty
<1>3. /\ Bos \in Nat /\ Articulation \in Nat /\ Bos # End /\ Articulation # End
      /\ Bos # Branch /\ Articulation # Branch
  BY DEF Bos, Articulation, End, Branch
<1>4. /\ Fresh.state = "bos" /\ ~Fresh.ended /\ Fresh.joints = 0 /\ ~Fresh.branchHalf
  BY DEF Fresh
<1>5. StateAfter("bos", Bos) = "first"
  BY DEF StateAfter
<1>6. StateAfter("first", Articulation) = "part_or_joint"
  <2>1. /\ ~(Articulation < 256) /\ Articulation # Bos /\ Articulation \in Classes
        /\ Articulation \in Nat
    BY DEF Articulation, Classes, Bos
  <2>2. Articulation \notin Parts
    BY SkeletonTokensAssumption DEF Articulation
  <2> QED
    BY <2>1, <2>2 DEF StateAfter
<1>7. Bos \in Allowed(Fresh) /\ \A q : q.state = "first" => Articulation \in Allowed(q)
  BY <1>4 DEF Allowed, Classes, Articulation
<1> DEFINE s1 == Append(s0, Bos)
           s2 == Append(s1, Articulation)
<1>8. /\ Spoken(s1) /\ Parse(s1).state = "first" /\ ~Parse(s1).ended
      /\ Parse(s1).joints = 0 /\ ~Parse(s1).branchHalf
  BY <1>1, <1>2, <1>3, <1>4, <1>5, <1>7, TokenTaken
<1>9. <<Bos, Articulation>> = s2
  BY <1>0
<1> HIDE DEF s1
<1>10. /\ Spoken(s2) /\ Parse(s2).state = "part_or_joint" /\ ~Parse(s2).ended
       /\ Parse(s2).joints = 0 /\ ~Parse(s2).branchHalf
  <2>1. StateAfter(Parse(s1).state, Articulation) = "part_or_joint" /\ Articulation \in Allowed(Parse(s1))
    BY <1>6, <1>7, <1>8
  <2> QED
    BY <1>3, <1>8, <2>1, TokenTaken
<1> QED
  BY <1>9, <1>10 DEF Ready

(* The tokens of a joint lead from between two joints to between the next  *)
(* two.                                                                    *)
LEMMA JointSpoken ==
  ASSUME NEW cells, NEW ps, CellsAndParents(cells, ps), NEW j \in 1 .. Len(cells),
         NEW s, Ready(s, j - 1)
  PROVE  Ready(Joined(s, JointTokens(cells, ps, j)), j)
<1>1. Len(cells) \in Nat \ {0} /\ j \in Nat /\ j # 0
  BY DEF CellsAndParents
<1>2. \A i \in 1 .. Len(cells) : cells[i] \in Seq(Nat)
  BY JointWritten
<1>3. s \in Seq(Nat) /\ Spoken(s)
  BY DEF Ready, Spoken
<1>4. PICK x \in Coordinates, y \in Coordinates, z \in Coordinates : cells[j] = <<x, y, z>>
  BY DEF CellsAndParents
<1>5. CASE Branches(ps, j)
  <2>1. j \in 2 .. Len(cells)
    BY <1>1, <1>5 DEF Branches
  <2>2. ps[j] \in 0 .. j - 2
    BY <2>1 DEF CellsAndParents
  <2>3. ps[j] + 1 \in 1 .. Len(cells)
    BY <1>1, <2>2
  <2>4. PICK u \in Coordinates, v \in Coordinates, w \in Coordinates :
          cells[ps[j] + 1] = <<u, v, w>>
    BY <2>3 DEF CellsAndParents
  <2> DEFINE s1 == Append(s, Branch)
             s2 == Joined(s1, cells[ps[j] + 1])
             s3 == Joined(s2, cells[j])
  <2>5. Parse(s).state = "between" /\ ~Parse(s).ended /\ Parse(s).joints = j - 1 /\ ~Parse(s).branchHalf
    BY <1>1, <2>1 DEF Ready
  <2>6. Branch \in Nat /\ Branch # End
    BY DEF Branch, End
  <2>7. Branch \in Allowed(Parse(s))
    BY <2>5 DEF Allowed
  <2>8. StateAfter(Parse(s).state, Branch) = "joint"
    <3>1. Branch # End /\ ~(Branch < 256)
      BY DEF Branch, End
    <3>2. Parse(s).state = "between"
      BY <2>5
    <3> QED
      BY <3>1, <3>2 DEF StateAfter
  <2>9. /\ Spoken(s1) /\ Parse(s1).state = "joint" /\ ~Parse(s1).ended
        /\ Parse(s1).joints = j - 1 /\ Parse(s1).branchHalf
    BY <1>1, <1>3, <2>5, <2>6, <2>7, <2>8, TokenTaken
  <2>10. s1 \in Seq(Nat)
    BY <2>9 DEF Spoken
  <2> HIDE DEF s1
  <2>11. /\ Spoken(s2) /\ Parse(s2).state = "between" /\ ~Parse(s2).ended
         /\ Parse(s2).joints = j - 1 /\ ~Parse(s2).branchHalf
    BY <1>1, <2>4, <2>9, CellSpoken
  <2>12. s2 \in Seq(Nat)
    BY <2>11 DEF Spoken
  <2>15. s3 = Joined(s, JointTokens(cells, ps, j))
    <3>1. JointTokens(cells, ps, j) = Joined(Joined(<<Branch>>, cells[ps[j] + 1]), cells[j])
      BY <1>5 DEF JointTokens, Joined
    <3>2. s1 = Joined(s, <<Branch>>) /\ <<Branch>> \in Seq(Nat)
      BY <1>3, <2>6, AppendIsConcat DEF Joined, s1
    <3>3. cells[ps[j] + 1] \in Seq(Nat) /\ cells[j] \in Seq(Nat)
      BY <1>2, <2>3
    <3>4. Joined(<<Branch>>, cells[ps[j] + 1]) \in Seq(Nat)
      BY <3>2, <3>3, ConcatProperties DEF Joined
    <3>5. s2 = Joined(s, Joined(<<Branch>>, cells[ps[j] + 1]))
      BY <1>3, <3>2, <3>3, JoinedAssociative
    <3> QED
      BY <1>3, <3>1, <3>3, <3>4, <3>5, JoinedAssociative
  <2> HIDE DEF s2
  <2>13. /\ Spoken(s3) /\ Parse(s3).state = "between" /\ ~Parse(s3).ended
         /\ Parse(s3).joints = j /\ ~Parse(s3).branchHalf
    BY <1>1, <1>4, <2>11, CellSpoken
  <2> HIDE DEF s3
  <2> QED
    BY <1>1, <2>13, <2>15 DEF Ready
<1>6. CASE ~Branches(ps, j)
  <2>1. JointTokens(cells, ps, j) = cells[j]
    BY <1>6 DEF JointTokens
  <2>2. /\ Parse(s).state \in {"part_or_joint", "between", "joint"} /\ ~Parse(s).ended
        /\ Parse(s).joints = j - 1 /\ ~Parse(s).branchHalf
    BY DEF Ready
  <2> DEFINE t == Joined(s, cells[j])
  <2>3. /\ Spoken(t) /\ Parse(t).state = "between" /\ ~Parse(t).ended
        /\ Parse(t).joints = j /\ ~Parse(t).branchHalf
    BY <1>1, <1>3, <1>4, <2>2, CellSpoken
  <2> HIDE DEF t
  <2>4. Ready(t, j)
    BY <1>1, <2>3 DEF Ready
  <2> QED
    BY <2>1, <2>4 DEF t
<1> QED
  BY <1>5, <1>6

(* Whatever skeleton the tokenizer writes, every token of it is one the    *)
(* mask allows where it stands, and the parser ends on it without error,   *)
(* having counted its joints: tokenizer.cpp's writer and qwen.cpp's        *)
(* grammar speak one language.                                             *)
THEOREM WriterSpeaksGrammar ==
  ASSUME NEW cells, NEW ps, CellsAndParents(cells, ps)
  PROVE  LET tokens == Tokenized(cells, ps)
         IN /\ Spoken(tokens) /\ Parse(tokens).ended /\ Parse(tokens).state # "error"
            /\ Parse(tokens).joints = Len(cells)
<1>1. PICK T : Grows(cells, ps, T) /\ Tokenized(cells, ps) = Append(T[Len(cells)], End)
  BY WriterUnfolds
<1> DEFINE n == Len(cells)
           S == {j \in Nat : Ready(T[j], j)}
<1>2. n \in Nat \ {0}
  BY DEF CellsAndParents
<1>3. 0 \in S
  BY <1>1, StartSpoken DEF Grows
<1>4. ASSUME NEW j \in 0 .. n - 1, j \in S
      PROVE  j + 1 \in S
  <2>1. j + 1 \in 1 .. n /\ (j + 1) - 1 = j /\ j + 1 \in Nat
    BY <1>2
  <2>2. Ready(T[j], j)
    BY <1>4
  <2>3. T[j + 1] = Joined(T[j], JointTokens(cells, ps, j + 1))
    BY <1>1, <2>1 DEF Grows
  <2>4. Ready(T[j + 1], j + 1)
    BY <2>1, <2>2, <2>3, JointSpoken
  <2> QED
    BY <2>1, <2>4
<1> HIDE DEF S, n
<1>5. 0 .. n \subseteq S
  BY <1>2, <1>3, <1>4, BoundedInduction
<1> DEFINE s == T[Len(cells)]
<1>6. Ready(s, n)
  <2>1. n \in S
    BY <1>2, <1>5
  <2> QED
    BY <2>1 DEF S, n
<1> HIDE DEF s
<1>7. /\ Spoken(s) /\ Parse(s).state = "between" /\ Parse(s).joints = n
      /\ ~Parse(s).ended
  BY <1>2, <1>6 DEF Ready
<1>8. End \in Allowed(Parse(s))
  BY <1>2, <1>7 DEF Allowed
<1>9. End \in Nat /\ StateAfter("between", End) = "between"
  <2>1. \A t \in Parts : t # 258
    BY SkeletonTokensAssumption
  <2> QED
    BY <2>1 DEF End, StateAfter, Branch
<1> DEFINE t == Append(s, End)
<1>10. /\ Spoken(t) /\ Parse(t).ended /\ Parse(t).state = "between"
       /\ Parse(t).joints = n
  BY <1>2, <1>7, <1>8, <1>9, TokenTaken
<1>11. Tokenized(cells, ps) = t
  BY <1>1 DEF s
<1> HIDE DEF t
<1> QED
  BY <1>10, <1>11 DEF n
-----------------------------------------------------------------------------
(* Cells among tokens.                                                     *)

(* The reader's search for the closest joint.                              *)
LEMMA Square ==
  ASSUME NEW d \in Int
  PROVE  d * d >= 0 /\ (d * d = 0 => d = 0)
<1>1. CASE d >= 0
  BY <1>1
<1>2. CASE d < 0
  BY <1>2
<1> QED
  BY <1>1, <1>2

IsCell(cell) == \E x, y, z \in Coordinates : cell = <<x, y, z>>

LEMMA CellFacts ==
  ASSUME NEW p, IsCell(p)
  PROVE  /\ p \in Seq(Nat) /\ p # <<>>
         /\ p[1] \in Int /\ p[2] \in Int /\ p[3] \in Int
         /\ p = <<p[1], p[2], p[3]>>
<1>1. PICK x \in Coordinates, y \in Coordinates, z \in Coordinates : p = <<x, y, z>>
  BY DEF IsCell
<1>2. x \in Nat /\ y \in Nat /\ z \in Nat
  BY SkeletonTokensAssumption
<1> QED
  BY <1>1, <1>2

LEMMA DistanceFacts ==
  ASSUME NEW p, NEW q, IsCell(p), IsCell(q)
  PROVE  /\ Distance(p, q) \in Nat
         /\ Distance(p, q) = 0 <=> p = q
<1>1. p[1] \in Int /\ p[2] \in Int /\ p[3] \in Int /\ p = <<p[1], p[2], p[3]>>
      /\ q[1] \in Int /\ q[2] \in Int /\ q[3] \in Int /\ q = <<q[1], q[2], q[3]>>
  BY CellFacts
<1>2. PICK a \in Int, b \in Int, c \in Int : a = p[1] - q[1] /\ b = p[2] - q[2] /\ c = p[3] - q[3]
  BY <1>1
<1>3. PICK aa \in Int, bb \in Int, cc \in Int : aa = a * a /\ bb = b * b /\ cc = c * c
  OBVIOUS
<1>4. /\ aa >= 0 /\ (aa = 0 => a = 0)
      /\ bb >= 0 /\ (bb = 0 => b = 0)
      /\ cc >= 0 /\ (cc = 0 => c = 0)
  BY <1>3, Square
<1>5. Distance(p, q) = aa + bb + cc
  BY <1>2, <1>3 DEF Distance
<1>6. Distance(p, q) \in Nat
  BY <1>4, <1>5
<1>7. ASSUME Distance(p, q) = 0
      PROVE  p = q
  <2>1. aa = 0 /\ bb = 0 /\ cc = 0
    BY <1>4, <1>5, <1>7
  <2>2. p[1] = q[1] /\ p[2] = q[2] /\ p[3] = q[3]
    BY <1>1, <1>2, <1>4, <2>1
  <2> QED
    BY <1>1, <2>2
<1>8. ASSUME p = q
      PROVE  Distance(p, q) = 0
  <2>1. a = 0 /\ b = 0 /\ c = 0
    BY <1>1, <1>2, <1>8
  <2> QED
    BY <1>3, <1>5, <2>1
<1> QED
  BY <1>6, <1>7, <1>8

(* The closest joint to a cell that a joint has is a joint in that cell.   *)
LEMMA ClosestIsThere ==
  ASSUME NEW cs, NEW n \in Nat, DOMAIN cs = 1 .. n, cs # <<>>,
         \A i \in 1 .. n : IsCell(cs[i]),
         NEW k \in 1 .. n, NEW p, p = cs[k]
  PROVE  Closest(cs, p) \in 0 .. n - 1 /\ cs[Closest(cs, p) + 1] = p
<1> DEFINE S == {i \in 1 .. n : cs[i] = p}
           Nearest(i) == /\ \A j \in DOMAIN cs : Distance(cs[i], p) <= Distance(cs[j], p)
                         /\ \A j \in 1 .. i - 1 : Distance(cs[j], p) > Distance(cs[i], p)
<1>1. PICK i \in Nat : i \in S /\ \A j \in 0 .. i - 1 : j \notin S
  <2>1. k \in Nat /\ k \in S
    OBVIOUS
  <2> HIDE DEF S
  <2> QED
    BY <2>1, Least
<1>2. IsCell(p)
  OBVIOUS
<1>3. \A j \in 1 .. n : Distance(cs[j], p) \in Nat /\ (Distance(cs[j], p) = 0 <=> cs[j] = p)
  BY <1>2, DistanceFacts
<1>4. i \in 1 .. n /\ Distance(cs[i], p) = 0
  BY <1>1, <1>3
<1>5. Nearest(i)
  <2>1. ASSUME NEW j \in 1 .. i - 1
        PROVE  Distance(cs[j], p) > Distance(cs[i], p)
    <3>1. j \in 1 .. n /\ cs[j] # p
      BY <1>1, <1>4
    <3>2. Distance(cs[j], p) \in Nat /\ Distance(cs[j], p) # 0
      BY <1>3, <3>1
    <3> QED
      BY <1>4, <3>2
  <2>2. \A j \in DOMAIN cs : Distance(cs[i], p) <= Distance(cs[j], p)
    BY <1>3, <1>4
  <2> QED
    BY <2>1, <2>2
<1> DEFINE chosen == CHOOSE h \in DOMAIN cs : Nearest(h)
<1>6. Closest(cs, p) = chosen - 1
  BY DEF Closest
<1>7. chosen \in 1 .. n /\ Nearest(chosen)
  <2> HIDE DEF Nearest
  <2> QED
    BY <1>4, <1>5
<1> HIDE DEF chosen
<1>8. Distance(cs[chosen], p) = 0
  <2>1. Distance(cs[chosen], p) <= Distance(cs[i], p)
    BY <1>4, <1>7
  <2> QED
    BY <1>3, <1>4, <1>7, <2>1
<1>9. cs[chosen] = p
  BY <1>3, <1>7, <1>8
<1> QED
  BY <1>6, <1>7, <1>9

(* The reader finds a cell at c.                                           *)
CellAt(s, c, cell) ==
  /\ c + 2 < Len(s) /\ HasPoint(s, c) /\ SubSeq(s, c, c + 2) = cell
  /\ s[c] \in 0 .. 255

LEMMA Window ==
  ASSUME NEW s, NEW c \in Int, NEW d \in Int, \A i \in c .. d : s[i] \in Nat
  PROVE  /\ SubSeq(s, c, d) \in Seq(Nat)
         /\ Len(SubSeq(s, c, d)) = IF c <= d THEN d - c + 1 ELSE 0
         /\ \A i \in 1 .. d - c + 1 : SubSeq(s, c, d)[i] = s[c + i - 1]
BY SubSeqProperties

LEMMA CellIs ==
  ASSUME NEW s \in Seq(Nat), NEW c \in Nat, c >= 1, c + 2 < Len(s),
         NEW x \in Coordinates, NEW y \in Coordinates, NEW z \in Coordinates,
         s[c] = x, s[c + 1] = y, s[c + 2] = z
  PROVE  CellAt(s, c, <<x, y, z>>)
<1>1. Len(s) \in Nat
  BY LenProperties
<1>2. x \in 0 .. 255 /\ y \in 0 .. 255 /\ z \in 0 .. 255
  BY SkeletonTokensAssumption
<1>3. \A i \in c .. c + 2 : i = c \/ i = c + 1 \/ i = c + 2
  OBVIOUS
<1>4. \A i \in c .. c + 2 : s[i] \in 0 .. 255
  BY <1>2, <1>3
<1>5. HasPoint(s, c)
  BY <1>1, <1>4 DEF HasPoint
<1> DEFINE t == SubSeq(s, c, c + 2)
           u == <<x, y, z>>
<1>6. /\ t \in Seq(Nat) /\ Len(t) = 3
      /\ t[1] = s[c] /\ t[2] = s[c + 1] /\ t[3] = s[c + 2]
  <2>1. \A i \in c .. c + 2 : s[i] \in Nat
    BY <1>4
  <2>2. /\ t \in Seq(Nat) /\ Len(t) = IF c <= c + 2 THEN c + 2 - c + 1 ELSE 0
        /\ \A i \in 1 .. c + 2 - c + 1 : t[i] = s[c + i - 1]
    <3>1. PICK d \in Int : d = c + 2
      OBVIOUS
    <3>2. \A i \in c .. d : s[i] \in Nat
      BY <2>1, <3>1
    <3>3. c \in Int
      OBVIOUS
    <3>4. /\ SubSeq(s, c, d) \in Seq(Nat)
          /\ Len(SubSeq(s, c, d)) = IF c <= d THEN d - c + 1 ELSE 0
          /\ \A i \in 1 .. d - c + 1 : SubSeq(s, c, d)[i] = s[c + i - 1]
      BY <3>2, <3>3, Window, Zenon
    <3> QED
      BY <3>1, <3>4
  <2>3. c + 2 - c + 1 = 3 /\ c <= c + 2 /\ c + 1 - 1 = c /\ c + 2 - 1 = c + 1 /\ c + 3 - 1 = c + 2
    OBVIOUS
  <2> HIDE DEF t
  <2> QED
    BY <2>2, <2>3
<1>7. u \in Seq(Nat) /\ Len(u) = 3 /\ u[1] = x /\ u[2] = y /\ u[3] = z
  BY <1>2
<1> HIDE DEF t, u
<1>8. t = u
  <2>1. \A i \in 1 .. 3 : i = 1 \/ i = 2 \/ i = 3
    OBVIOUS
  <2>2. \A i \in 1 .. Len(t) : t[i] = u[i]
    BY <1>6, <1>7, <2>1
  <2> QED
    BY <1>6, <1>7, <2>2, SeqEqual
<1> QED
  BY <1>2, <1>5, <1>8 DEF CellAt, t, u

LEMMA CellIsAt ==
  ASSUME NEW s \in Seq(Nat), NEW c \in Nat, c >= 1, c + 2 < Len(s), NEW cell, IsCell(cell),
         s[c] = cell[1], s[c + 1] = cell[2], s[c + 2] = cell[3]
  PROVE  CellAt(s, c, cell)
<1>1. PICK x \in Coordinates, y \in Coordinates, z \in Coordinates : cell = <<x, y, z>>
  BY DEF IsCell
<1>2. cell[1] = x /\ cell[2] = y /\ cell[3] = z
  BY <1>1
<1>3. CellAt(s, c, <<x, y, z>>)
  BY <1>2, CellIs, Zenon
<1> QED
  BY <1>1, <1>3

(* t is s and a cell, t is s and a branch to a cell.                       *)
CellJoins(s, cell, t) ==
  /\ t \in Seq(Nat) /\ Len(s) \in Nat /\ Len(t) = Len(s) + 3
  /\ \A i \in 1 .. Len(s) : t[i] = s[i]
  /\ t[Len(s) + 1] = cell[1] /\ t[Len(s) + 2] = cell[2] /\ t[Len(s) + 3] = cell[3]

LEMMA CellJoined ==
  ASSUME NEW s \in Seq(Nat), NEW cell, IsCell(cell)
  PROVE  CellJoins(s, cell, Joined(s, cell))
<1>1. PICK x \in Coordinates, y \in Coordinates, z \in Coordinates : cell = <<x, y, z>>
  BY DEF IsCell
<1>2. x \in Nat /\ y \in Nat /\ z \in Nat
  BY SkeletonTokensAssumption
<1>3. Joined(s, cell) = Append(Append(Append(s, x), y), z)
  BY <1>1, <1>2, CellAppended
<1> DEFINE s1 == Append(s, x)
           s2 == Append(s1, y)
           s3 == Append(s2, z)
<1>4. Len(s) \in Nat
  BY LenProperties
<1>5. s1 \in Seq(Nat) /\ Len(s1) = Len(s) + 1 /\ (\A i \in 1 .. Len(s) : s1[i] = s[i])
      /\ s1[Len(s) + 1] = x
  BY <1>2, AppendProperties
<1> HIDE DEF s1
<1>6. s2 \in Seq(Nat) /\ Len(s2) = Len(s1) + 1 /\ (\A i \in 1 .. Len(s1) : s2[i] = s1[i])
      /\ s2[Len(s1) + 1] = y
  BY <1>2, <1>5, AppendProperties
<1> HIDE DEF s2
<1>7. s3 \in Seq(Nat) /\ Len(s3) = Len(s2) + 1 /\ (\A i \in 1 .. Len(s2) : s3[i] = s2[i])
      /\ s3[Len(s2) + 1] = z
  BY <1>2, <1>6, AppendProperties
<1>8. Joined(s, cell) = s3
  BY <1>3 DEF s1, s2
<1> HIDE DEF s3
<1>9. PICK n \in Nat : n = Len(s)
  BY <1>4
<1>10. /\ Len(s1) = n + 1 /\ Len(s2) = n + 2 /\ Len(s3) = n + 3
       /\ \A i \in 1 .. n : s3[i] = s[i]
       /\ s3[n + 1] = x /\ s3[n + 2] = y /\ s3[n + 3] = z
  <2>1. PICK n1 \in Nat, n2 \in Nat : n1 = n + 1 /\ n2 = n + 2
    OBVIOUS
  <2>2. Len(s1) = n1 /\ Len(s2) = n2 /\ Len(s3) = n + 3
    BY <1>5, <1>6, <1>7, <1>9, <2>1
  <2>3. /\ \A i \in 1 .. n : s1[i] = s[i]
        /\ \A i \in 1 .. n1 : s2[i] = s1[i]
        /\ \A i \in 1 .. n2 : s3[i] = s2[i]
    BY <1>5, <1>6, <1>7, <1>9, <2>2
  <2>4. \A i \in 1 .. n : s3[i] = s[i]
    <3> TAKE i \in 1 .. n
    <3>1. i \in 1 .. n1 /\ i \in 1 .. n2
      BY <2>1
    <3> QED
      BY <2>3, <3>1
  <2>5. s1[n + 1] = x /\ s2[n + 2] = y /\ s3[n + 3] = z
    BY <1>5, <1>6, <1>7, <1>9, <2>1, <2>2
  <2>6. n + 1 \in 1 .. n1 /\ n + 1 \in 1 .. n2 /\ n + 2 \in 1 .. n2
    BY <2>1
  <2> QED
    BY <2>1, <2>2, <2>3, <2>4, <2>5, <2>6
<1>11. s3 \in Seq(Nat)
  BY <1>7
<1>12. cell[1] = x /\ cell[2] = y /\ cell[3] = z
  BY <1>1
<1> QED
  BY <1>8, <1>9, <1>10, <1>11, <1>12 DEF CellJoins

BranchJoins(s, a, b, t) ==
  /\ t \in Seq(Nat) /\ Len(s) \in Nat /\ Len(t) = Len(s) + 7
  /\ \A i \in 1 .. Len(s) : t[i] = s[i]
  /\ t[Len(s) + 1] = Branch
  /\ t[Len(s) + 2] = a[1] /\ t[Len(s) + 3] = a[2] /\ t[Len(s) + 4] = a[3]
  /\ t[Len(s) + 5] = b[1] /\ t[Len(s) + 6] = b[2] /\ t[Len(s) + 7] = b[3]

LEMMA BranchJoined ==
  ASSUME NEW s \in Seq(Nat), NEW a, IsCell(a), NEW b, IsCell(b)
  PROVE  BranchJoins(s, a, b, Joined(s, Joined(Joined(<<Branch>>, a), b)))
<1>1. Branch \in Nat
  BY DEF Branch
<1>2. PICK s1 : s1 = Append(s, Branch)
  OBVIOUS
<1>3. s1 \in Seq(Nat)
  BY <1>1, <1>2, AppendProperties
<1>4. Len(s1) = Len(s) + 1 /\ (\A i \in 1 .. Len(s) : s1[i] = s[i]) /\ s1[Len(s) + 1] = Branch
  BY <1>1, <1>2, AppendProperties
<1>5. PICK s2 : s2 = Joined(s1, a)
  OBVIOUS
<1>6. /\ s2 \in Seq(Nat) /\ Len(s1) \in Nat /\ Len(s2) = Len(s1) + 3
      /\ \A i \in 1 .. Len(s1) : s2[i] = s1[i]
      /\ s2[Len(s1) + 1] = a[1] /\ s2[Len(s1) + 2] = a[2] /\ s2[Len(s1) + 3] = a[3]
  BY <1>3, <1>5, CellJoined DEF CellJoins
<1>7. s2 \in Seq(Nat)
  BY <1>6
<1>8. PICK s3 : s3 = Joined(s2, b)
  OBVIOUS
<1>9. /\ s3 \in Seq(Nat) /\ Len(s2) \in Nat /\ Len(s3) = Len(s2) + 3
      /\ \A i \in 1 .. Len(s2) : s3[i] = s2[i]
      /\ s3[Len(s2) + 1] = b[1] /\ s3[Len(s2) + 2] = b[2] /\ s3[Len(s2) + 3] = b[3]
  BY <1>7, <1>8, CellJoined DEF CellJoins
<1>10. s3 = Joined(s, Joined(Joined(<<Branch>>, a), b))
  <2>1. s1 = Joined(s, <<Branch>>)
    BY <1>1, <1>2, AppendIsConcat DEF Joined
  <2>2. a \in Seq(Nat) /\ b \in Seq(Nat)
    BY CellFacts
  <2>3. <<Branch>> \in Seq(Nat)
    BY <1>1
  <2>4. Joined(<<Branch>>, a) \in Seq(Nat)
    BY <2>2, <2>3, ConcatProperties DEF Joined
  <2>5. s2 = Joined(s, Joined(<<Branch>>, a))
    BY <1>5, <2>1, <2>2, <2>3, JoinedAssociative
  <2> QED
    BY <1>8, <2>2, <2>4, <2>5, JoinedAssociative
<1>11. PICK n \in Nat : n = Len(s)
  BY LenProperties
<1>12. Len(s1) = n + 1 /\ Len(s2) = n + 4 /\ Len(s3) = n + 7
  BY <1>4, <1>6, <1>9, <1>11
<1>13. PICK n1 \in Nat, n2 \in Nat : n1 = n + 1 /\ n2 = n + 4
  OBVIOUS
<1>14. /\ \A i \in 1 .. n : s1[i] = s[i]
       /\ \A i \in 1 .. n1 : s2[i] = s1[i]
       /\ \A i \in 1 .. n2 : s3[i] = s2[i]
  BY <1>4, <1>6, <1>9, <1>11, <1>12, <1>13
<1>15. \A i \in 1 .. n : s3[i] = s[i]
  <2> TAKE i \in 1 .. n
  <2>1. i \in 1 .. n1 /\ i \in 1 .. n2
    BY <1>13
  <2> QED
    BY <1>14, <2>1
<1>16. s3[n + 1] = Branch
  <2>1. n + 1 \in 1 .. n1 /\ n + 1 \in 1 .. n2
    BY <1>13
  <2> QED
    BY <1>4, <1>11, <1>14, <2>1
<1>17. s3[n + 2] = a[1] /\ s3[n + 3] = a[2] /\ s3[n + 4] = a[3]
  <2>1. n + 2 \in 1 .. n2 /\ n + 3 \in 1 .. n2 /\ n + 4 \in 1 .. n2
    BY <1>13
  <2>2. s2[n + 2] = a[1] /\ s2[n + 3] = a[2] /\ s2[n + 4] = a[3]
    BY <1>6, <1>12
  <2> QED
    BY <1>14, <2>1, <2>2
<1>18. s3[n + 5] = b[1] /\ s3[n + 6] = b[2] /\ s3[n + 7] = b[3]
  BY <1>9, <1>12
<1>19. s3 \in Seq(Nat)
  BY <1>9
<1> HIDE <1>9
<1> QED
  BY <1>10, <1>11, <1>12, <1>15, <1>16, <1>17, <1>18, <1>19 DEF BranchJoins

(* What the tokens of a joint are.                                         *)
JointJoins(cells, ps, j, s, t) ==
  /\ IsCell(cells[j])
  /\ IF Branches(ps, j)
     THEN IsCell(cells[ps[j] + 1]) /\ BranchJoins(s, cells[ps[j] + 1], cells[j], t)
     ELSE CellJoins(s, cells[j], t)

LEMMA JointJoined ==
  ASSUME NEW cells, NEW ps, CellsAndParents(cells, ps), NEW j \in 1 .. Len(cells),
         NEW s \in Seq(Nat)
  PROVE  JointJoins(cells, ps, j, s, Joined(s, JointTokens(cells, ps, j)))
<1>2. IsCell(cells[j])
  BY DEF CellsAndParents, IsCell
<1>3. CASE ~Branches(ps, j)
  <2>1. JointTokens(cells, ps, j) = cells[j]
    BY <1>3 DEF JointTokens
  <2> QED
    BY <1>2, <1>3, <2>1, CellJoined DEF JointJoins
<1>4. CASE Branches(ps, j)
  <2>0. Len(cells) \in Nat /\ j \in 2 .. Len(cells)
    BY <1>4 DEF Branches, CellsAndParents
  <2>1. ps[j] + 1 \in 1 .. Len(cells)
    <3>1. ps[j] \in 0 .. j - 2
      BY <2>0 DEF CellsAndParents
    <3> QED
      BY <2>0, <3>1
  <2>2. IsCell(cells[ps[j] + 1])
    BY <2>1 DEF CellsAndParents, IsCell
  <2>3. JointTokens(cells, ps, j) = Joined(Joined(<<Branch>>, cells[ps[j] + 1]), cells[j])
    BY <1>4 DEF JointTokens, Joined
  <2> QED
    BY <1>2, <1>4, <2>2, <2>3, BranchJoined DEF JointJoins
<1> QED
  BY <1>3, <1>4

(* ... and what was there before them.                                     *)
LEMMA JointExtends ==
  ASSUME NEW cells, NEW ps, NEW j, NEW s, NEW t, JointJoins(cells, ps, j, s, t)
  PROVE  /\ Len(s) \in Nat /\ Len(t) \in Nat /\ Len(s) <= Len(t)
         /\ \A i \in 1 .. Len(s) : t[i] = s[i]
<1>1. CASE Branches(ps, j)
  BY <1>1 DEF JointJoins, BranchJoins
<1>2. CASE ~Branches(ps, j)
  BY <1>2 DEF JointJoins, CellJoins
<1> QED
  BY <1>1, <1>2
-----------------------------------------------------------------------------
(* Where the writer puts every joint.                                      *)

(* What has been written stays.                                            *)
LEMMA WrittenStays ==
  ASSUME NEW cells, NEW ps, CellsAndParents(cells, ps), NEW T, Grows(cells, ps, T)
  PROVE  \A j \in 0 .. Len(cells) :
           /\ Len(T[j]) \in Nat /\ Len(T[j]) <= Len(T[Len(cells)])
           /\ \A i \in 1 .. Len(T[j]) : T[Len(cells)][i] = T[j][i]
<1> DEFINE n == Len(cells)
           Kept(j) == /\ Len(T[j]) \in Nat /\ Len(T[j]) <= Len(T[n])
                      /\ \A i \in 1 .. Len(T[j]) : T[n][i] = T[j][i]
           S == {k \in Nat : Kept(n - k)}
<1>1. n \in Nat \ {0}
  BY DEF CellsAndParents
<1>2. \A j \in 0 .. n : Len(T[j]) \in Nat
  <2> TAKE j \in 0 .. n
  <2>1. T[j] \in Seq(Nat)
    BY DEF Grows
  <2> QED
    BY <2>1, LenProperties
<1>3. 0 \in S
  <2>1. n - 0 = n /\ n \in 0 .. n
    BY <1>1
  <2>2. Len(T[n]) \in Nat
    BY <1>2, <2>1
  <2> QED
    BY <2>1, <2>2
<1>4. ASSUME NEW k \in 0 .. n - 1, k \in S
      PROVE  k + 1 \in S
  <2>1. PICK j \in 1 .. n : j = n - k
    BY <1>1
  <2>2. n - (k + 1) = j - 1 /\ j - 1 \in 0 .. n
    BY <1>1, <2>1
  <2>3. Kept(j)
    BY <1>4, <2>1
  <2>4. T[j] = Joined(T[j - 1], JointTokens(cells, ps, j)) /\ T[j - 1] \in Seq(Nat)
    BY <2>2 DEF Grows
  <2>5. JointJoins(cells, ps, j, T[j - 1], T[j])
    BY <2>4, JointJoined
  <2>7. PICK m \in Nat : m = Len(T[j - 1])
    BY <2>5, JointExtends
  <2>6. m <= Len(T[j]) /\ \A i \in 1 .. m : T[j][i] = T[j - 1][i]
    BY <2>5, <2>7, JointExtends
  <2> HIDE DEF n
  <2>8. Len(T[j]) \in Nat /\ m <= Len(T[j])
    BY <2>3, <2>6
  <2>9. m <= Len(T[n])
    BY <1>1, <1>2, <2>3, <2>7, <2>8
  <2>10. \A i \in 1 .. m : T[n][i] = T[j - 1][i]
    <3> TAKE i \in 1 .. m
    <3>1. i \in 1 .. Len(T[j])
      BY <2>8
    <3> QED
      BY <2>3, <2>6, <3>1
  <2> QED
    BY <2>2, <2>7, <2>9, <2>10
<1> HIDE DEF S, n
<1>5. 0 .. n \subseteq S
  BY <1>1, <1>3, <1>4, BoundedInduction
<1>6. ASSUME NEW j \in 0 .. n
      PROVE  Kept(j)
  <2>1. n - j \in 0 .. n /\ n - (n - j) = j
    BY <1>1
  <2>2. n - j \in S
    BY <1>5, <2>1
  <2> QED
    BY <2>1, <2>2 DEF S
<1> QED
  BY <1>6 DEF n

(* Where a joint lies in the tokens.                                       *)
JointAt(cells, ps, j, s, c, end) ==
  IF Branches(ps, j)
  THEN /\ s[c] = Branch /\ CellAt(s, c + 1, cells[ps[j] + 1])
       /\ CellAt(s, c + 4, cells[j]) /\ end = c + 7
  ELSE CellAt(s, c, cells[j]) /\ end = c + 3

LEMMA JointIsAt ==
  ASSUME NEW cells, NEW ps, CellsAndParents(cells, ps), NEW T, Grows(cells, ps, T),
         NEW s, s = Append(T[Len(cells)], End), NEW j \in 1 .. Len(cells)
  PROVE  JointAt(cells, ps, j, s, Len(T[j - 1]) + 1, Len(T[j]) + 1)
<1> DEFINE n == Len(cells)
<1>1. n \in Nat \ {0}
  BY DEF CellsAndParents
<1>2. j - 1 \in 0 .. n /\ j \in 0 .. n /\ n \in 0 .. n
  BY <1>1
<1>3. PICK t \in Seq(Nat) : t = T[j - 1]
  BY <1>2 DEF Grows
<1>4. T[j] = Joined(t, JointTokens(cells, ps, j))
  BY <1>3 DEF Grows
<1>5. JointJoins(cells, ps, j, t, T[j])
  BY <1>4, JointJoined
<1>6. PICK whole \in Seq(Nat) : whole = T[n]
  BY <1>2 DEF Grows
<1> HIDE DEF n
<1>7. s \in Seq(Nat) /\ Len(s) = Len(whole) + 1 /\ \A i \in 1 .. Len(whole) : s[i] = whole[i]
  <2>1. End \in Nat
    BY DEF End
  <2>2. s = Append(whole, End)
    BY <1>6 DEF n
  <2> QED
    BY <2>1, <2>2, AppendProperties
<1>8. s \in Seq(Nat)
  BY <1>7
<1>9. PICK m \in Nat, e \in Nat, l \in Nat : m = Len(t) /\ e = Len(T[j]) /\ l = Len(whole) /\ e <= l
  <2>1. Len(t) \in Nat /\ Len(whole) \in Nat
    BY LenProperties
  <2>2. Len(T[j]) \in Nat /\ Len(T[j]) <= Len(whole)
    BY <1>2, <1>6, WrittenStays DEF n
  <2> QED
    BY <2>1, <2>2
<1>10. \A i \in 1 .. e : s[i] = T[j][i]
  <2>1. \A i \in 1 .. e : whole[i] = T[j][i]
    BY <1>2, <1>6, <1>9, WrittenStays DEF n
  <2> QED
    BY <1>7, <1>9, <2>1
<1>11. Len(s) = l + 1
  BY <1>7, <1>9
<1> DEFINE a == cells[ps[j] + 1]
           b == cells[j]
<1>12. CASE Branches(ps, j)
  <2>1. e = m + 7
    BY <1>5, <1>9, <1>12 DEF JointJoins, BranchJoins
  <2>2. /\ IsCell(a) /\ IsCell(b)
        /\ T[j][m + 1] = Branch
        /\ T[j][m + 2] = a[1] /\ T[j][m + 3] = a[2] /\ T[j][m + 4] = a[3]
        /\ T[j][m + 5] = b[1] /\ T[j][m + 6] = b[2] /\ T[j][m + 7] = b[3]
    BY <1>5, <1>9, <1>12 DEF JointJoins, BranchJoins
  <2> HIDE DEF a, b
  <2>3. /\ s[m + 1] = Branch
        /\ s[m + 2] = a[1] /\ s[m + 3] = a[2] /\ s[m + 4] = a[3]
        /\ s[m + 5] = b[1] /\ s[m + 6] = b[2] /\ s[m + 7] = b[3]
    <3>1. /\ m + 1 \in 1 .. e /\ m + 2 \in 1 .. e /\ m + 3 \in 1 .. e /\ m + 4 \in 1 .. e
          /\ m + 5 \in 1 .. e /\ m + 6 \in 1 .. e /\ m + 7 \in 1 .. e
      BY <2>1
    <3> QED
      BY <1>10, <2>2, <3>1
  <2>4. PICK c1 \in Nat, c2 \in Nat : c1 = m + 2 /\ c2 = m + 5
    OBVIOUS
  <2>5. c1 >= 1 /\ c2 >= 1 /\ c1 + 2 < Len(s) /\ c2 + 2 < Len(s)
    BY <1>9, <1>11, <2>1, <2>4
  <2>6. /\ s[c1] = a[1] /\ s[c1 + 1] = a[2] /\ s[c1 + 2] = a[3]
        /\ s[c2] = b[1] /\ s[c2 + 1] = b[2] /\ s[c2 + 2] = b[3]
    <3>1. /\ c1 + 1 = m + 3 /\ c1 + 2 = m + 4 /\ c2 + 1 = m + 6 /\ c2 + 2 = m + 7
      BY <2>4
    <3> QED
      BY <2>3, <2>4, <3>1, Zenon
  <2>7. CellAt(s, c1, a) /\ CellAt(s, c2, b)
    BY <1>8, <2>2, <2>5, <2>6, CellIsAt, Zenon
  <2>8. (m + 1) + 1 = c1 /\ (m + 1) + 4 = c2 /\ e + 1 = (m + 1) + 7
    BY <2>1, <2>4
  <2> QED
    BY <1>3, <1>9, <1>12, <2>3, <2>7, <2>8 DEF JointAt, a, b
<1>13. CASE ~Branches(ps, j)
  <2>1. e = m + 3
    BY <1>5, <1>9, <1>13 DEF JointJoins, CellJoins
  <2>2. /\ IsCell(b)
        /\ T[j][m + 1] = b[1] /\ T[j][m + 2] = b[2] /\ T[j][m + 3] = b[3]
    BY <1>5, <1>9, <1>13 DEF JointJoins, CellJoins
  <2> HIDE DEF a, b
  <2>3. s[m + 1] = b[1] /\ s[m + 2] = b[2] /\ s[m + 3] = b[3]
    <3>1. m + 1 \in 1 .. e /\ m + 2 \in 1 .. e /\ m + 3 \in 1 .. e
      BY <2>1
    <3> QED
      BY <1>10, <2>2, <3>1
  <2>4. PICK c \in Nat : c = m + 1
    OBVIOUS
  <2>5. c >= 1 /\ c + 2 < Len(s)
    BY <1>9, <1>11, <2>1, <2>4
  <2>6. s[c] = b[1] /\ s[c + 1] = b[2] /\ s[c + 2] = b[3]
    <3>1. c + 1 = m + 2 /\ c + 2 = m + 3
      BY <2>4
    <3> QED
      BY <2>3, <2>4, <3>1, Zenon
  <2>7. CellAt(s, c, b)
    BY <1>8, <2>2, <2>5, <2>6, CellIsAt, Zenon
  <2>8. e + 1 = (m + 1) + 3
    BY <2>1
  <2> QED
    BY <1>3, <1>9, <1>13, <2>4, <2>7, <2>8 DEF JointAt, b
<1> QED
  BY <1>12, <1>13
-----------------------------------------------------------------------------
(* The reader over the writer's tokens.                                    *)

(* The joints a reader has, when they are the first j of the skeleton.     *)
JointsRead(cells, ps, cs, qs, j) ==
  /\ cs \in Seq(Seq(Nat)) /\ Len(cs) = j
  /\ \A i \in 1 .. j : cs[i] = cells[i]
  /\ qs \in Seq(Int) /\ Len(qs) = j
  /\ j # 0 => qs[1] = -1
  /\ \A i \in 2 .. j : qs[i] \in 0 .. i - 2 /\ cells[qs[i] + 1] = cells[ps[i] + 1]

(* One more.                                                               *)
LEMMA JointRead ==
  ASSUME NEW cells, NEW ps, CellsAndParents(cells, ps), NEW j \in 1 .. Len(cells),
         NEW cs, NEW qs, JointsRead(cells, ps, cs, qs, j - 1),
         NEW start, j # 1 => start = cells[ps[j] + 1]
  PROVE  JointsRead(cells, ps, Append(cs, cells[j]), Append(qs, Closest(cs, start)), j)
<1>1. Len(cells) \in Nat /\ j \in Nat /\ j # 0
  BY DEF CellsAndParents
<1>2. PICK k \in Nat : k = j - 1 /\ j = k + 1
  BY <1>1
<1>3. /\ cs \in Seq(Seq(Nat)) /\ Len(cs) = k /\ (\A i \in 1 .. k : cs[i] = cells[i])
      /\ qs \in Seq(Int) /\ Len(qs) = k
  BY <1>2 DEF JointsRead
<1>4. IsCell(cells[j]) /\ cells[j] \in Seq(Nat)
  <2>1. IsCell(cells[j])
    BY DEF CellsAndParents, IsCell
  <2> QED
    BY <2>1, CellFacts
<1>5. IF j = 1 THEN Closest(cs, start) = -1
      ELSE /\ Closest(cs, start) \in 0 .. j - 2
           /\ cells[Closest(cs, start) + 1] = cells[ps[j] + 1]
  <2>1. CASE j = 1
    <3>1. cs = <<>>
      BY <1>2, <1>3, <2>1, EmptySeq
    <3> QED
      BY <2>1, <3>1 DEF Closest
  <2>2. CASE j # 1
    <3>1. ps[j] \in 0 .. j - 2
      <4>1. j \in 2 .. Len(cells)
        BY <1>1, <2>2
      <4> QED
        BY <4>1 DEF CellsAndParents
    <3>2. PICK m \in 1 .. k : m = ps[j] + 1
      BY <1>2, <3>1
    <3>3. start = cs[m]
      BY <1>3, <2>2, <3>2
    <3>4. DOMAIN cs = 1 .. k /\ cs # <<>>
      <4>1. DOMAIN cs = 1 .. Len(cs)
        BY <1>3, LenProperties
      <4>2. k # 0
        BY <1>2, <2>2
      <4> QED
        BY <1>3, <4>1, <4>2
    <3>5. \A i \in 1 .. k : IsCell(cs[i])
      <4> TAKE i \in 1 .. k
      <4>1. i \in 1 .. Len(cells)
        BY <1>1, <1>2
      <4>2. IsCell(cells[i])
        BY <4>1 DEF CellsAndParents, IsCell
      <4> QED
        BY <1>3, <4>2
    <3>6. Closest(cs, start) \in 0 .. k - 1 /\ cs[Closest(cs, start) + 1] = start
      BY <3>3, <3>4, <3>5, ClosestIsThere
    <3>7. Closest(cs, start) + 1 \in 1 .. k
      BY <3>6
    <3>8. cs[Closest(cs, start) + 1] = cells[Closest(cs, start) + 1]
      BY <1>3, <3>7
    <3> QED
      BY <1>2, <2>2, <3>6, <3>8
  <2> QED
    BY <2>1, <2>2
<1>6. PICK h \in Int : h = Closest(cs, start)
  BY <1>1, <1>5
<1>7. PICK ds : ds = Append(cs, cells[j])
  OBVIOUS
<1>8. ds \in Seq(Seq(Nat)) /\ Len(ds) = k + 1
      /\ (\A i \in 1 .. k : ds[i] = cs[i]) /\ ds[k + 1] = cells[j]
  BY <1>3, <1>4, <1>7, AppendProperties
<1>9. PICK rs : rs = Append(qs, h)
  OBVIOUS
<1>10. rs \in Seq(Int) /\ Len(rs) = k + 1
       /\ (\A i \in 1 .. k : rs[i] = qs[i]) /\ rs[k + 1] = h
  BY <1>3, <1>9, AppendProperties
<1>11. \A i \in 1 .. j : ds[i] = cells[i]
  BY <1>2, <1>3, <1>8
<1>12. rs[1] = -1
  <2>1. CASE j = 1
    BY <1>2, <1>5, <1>6, <1>10, <2>1
  <2>2. CASE j # 1
    <3>1. 1 \in 1 .. k /\ k # 0
      BY <1>2, <2>2
    <3>2. qs[1] = -1
      BY <1>2, <3>1 DEF JointsRead
    <3> QED
      BY <1>10, <3>1, <3>2
  <2> QED
    BY <2>1, <2>2
<1>13. ASSUME NEW i \in 2 .. j
       PROVE  rs[i] \in 0 .. i - 2 /\ cells[rs[i] + 1] = cells[ps[i] + 1]
  <2>1. CASE i = j
    <3>1. j # 1 /\ rs[i] = h
      BY <1>2, <1>10, <2>1
    <3> QED
      BY <1>5, <1>6, <2>1, <3>1
  <2>2. CASE i # j
    <3>1. i \in 2 .. k /\ i \in 1 .. k /\ i \in 2 .. j - 1
      BY <1>2, <2>2
    <3>2. qs[i] \in 0 .. i - 2 /\ cells[qs[i] + 1] = cells[ps[i] + 1]
      BY <3>1 DEF JointsRead
    <3> QED
      BY <1>10, <3>1, <3>2
  <2> QED
    BY <2>1, <2>2
<1>14. JointsRead(cells, ps, ds, rs, j)
  <2>1. ds \in Seq(Seq(Nat)) /\ rs \in Seq(Int)
    BY <1>8, <1>10
  <2>2. Len(ds) = j /\ Len(rs) = j
    BY <1>2, <1>8, <1>10
  <2> QED
    BY <1>11, <1>12, <1>13, <2>1, <2>2 DEF JointsRead
<1> QED
  BY <1>6, <1>7, <1>9, <1>14

(* A reader between two joints, j of them read.                            *)
ReadTo(cells, ps, r, j, c) ==
  /\ r = [cursor |-> c, branch |-> FALSE, previous |-> IF j = 0 THEN NoPoint ELSE cells[j],
          cells |-> r.cells, parents |-> r.parents, failed |-> FALSE]
  /\ JointsRead(cells, ps, r.cells, r.parents, j)

LEMMA NotOver ==
  /\ \A c, l \in Nat : c + 2 < l => ~(c >= l)
  /\ \A t \in 0 .. 255 : t # End
BY DEF End

(* Reading a joint that follows its parent takes one round, and one that   *)
(* does not takes two.                                                     *)
LEMMA NextIsRead ==
  ASSUME NEW cells, NEW ps, CellsAndParents(cells, ps), NEW j \in 1 .. Len(cells),
         NEW s, Len(s) \in Nat, NEW c \in Nat, ~Branches(ps, j), CellAt(s, c, cells[j]),
         NEW r, ReadTo(cells, ps, r, j - 1, c)
  PROVE  ReadTo(cells, ps, Read(s, r), j, c + 3)
<1>1. /\ r.cursor = c /\ r.branch = FALSE /\ r.failed = FALSE /\ IsReader(r)
      /\ r.previous = IF j - 1 = 0 THEN NoPoint ELSE cells[j - 1]
  BY DEF ReadTo, IsReader
<1>2. /\ c + 2 < Len(s) /\ HasPoint(s, c) /\ SubSeq(s, c, c + 2) = cells[j]
      /\ s[c] \in 0 .. 255
  BY DEF CellAt
<1>3. ~Stopped(s, r)
  <2>2. c + 2 < Len(s) /\ s[c] \in 0 .. 255
    BY <1>2
  <2>1. ~(c >= Len(s)) /\ s[c] # End
    BY <2>2, NotOver, Zenon
  <2> QED
    BY <1>1, <2>1 DEF Stopped
<1>4. Own(r) = c
  BY <1>1 DEF Own
<1>5. PICK start : start = IF r.previous # NoPoint THEN r.previous ELSE cells[j]
  OBVIOUS
<1>6. Read(s, r) = [cursor |-> c + 3, branch |-> FALSE, previous |-> cells[j],
                    cells |-> Append(r.cells, cells[j]),
                    parents |-> Append(r.parents, Closest(r.cells, start)),
                    failed |-> FALSE]
  <2>1. s[r.cursor] \in 0 .. 255 /\ HasPoint(s, r.cursor) /\ (r.branch => HasPoint(s, r.cursor + 3))
    BY <1>1, <1>2
  <2>2. PICK own : own = SubSeq(s, Own(r), Own(r) + 2)
    OBVIOUS
  <2>3. own = cells[j]
    BY <1>2, <1>4, <2>2
  <2>4. PICK from : from = IF r.branch THEN SubSeq(s, r.cursor, r.cursor + 2)
                           ELSE IF r.previous # NoPoint THEN r.previous ELSE own
    OBVIOUS
  <2>5. from = start
    BY <1>1, <1>5, <2>3, <2>4
  <2>6. Read(s, r) = [cursor |-> Own(r) + 3, branch |-> FALSE, previous |-> own,
                      cells |-> Append(r.cells, own),
                      parents |-> Append(r.parents, Closest(r.cells, from)),
                      failed |-> r.failed]
    BY <1>1, <1>3, <2>1, <2>2, <2>4, ReadPoints, Zenon
  <2> QED
    BY <1>1, <1>4, <2>3, <2>5, <2>6, Zenon
<1>7. j # 1 => start = cells[ps[j] + 1]
  <2> SUFFICES ASSUME j # 1
               PROVE  start = cells[ps[j] + 1]
    OBVIOUS
  <2>1. Len(cells) \in Nat /\ j \in 2 .. Len(cells)
    BY DEF CellsAndParents
  <2>2. ps[j] = j - 2 /\ ps[j] + 1 = j - 1 /\ j - 1 # 0 /\ j - 1 \in 1 .. Len(cells)
    BY <2>1 DEF Branches
  <2>3. IsCell(cells[j - 1])
    BY <2>2 DEF CellsAndParents, IsCell
  <2>4. cells[j - 1] # NoPoint
    BY <2>3, CellFacts DEF NoPoint
  <2> QED
    BY <1>1, <1>5, <2>2, <2>4
<1>8. JointsRead(cells, ps, r.cells, r.parents, j - 1)
  BY DEF ReadTo
<1>9. JointsRead(cells, ps, Append(r.cells, cells[j]), Append(r.parents, Closest(r.cells, start)), j)
  BY <1>7, <1>8, JointRead
<1>10. j # 0
  OBVIOUS
<1> QED
  BY <1>6, <1>9, <1>10 DEF ReadTo

LEMMA BranchIsRead ==
  ASSUME NEW cells, NEW ps, CellsAndParents(cells, ps), NEW j \in 1 .. Len(cells),
         NEW s, Len(s) \in Nat, NEW c \in Nat, Branches(ps, j),
         s[c] = Branch, CellAt(s, c + 1, cells[ps[j] + 1]), CellAt(s, c + 4, cells[j]),
         NEW r, ReadTo(cells, ps, r, j - 1, c)
  PROVE  ReadTo(cells, ps, Read(s, Read(s, r)), j, c + 7)
<1>1. /\ r.cursor = c /\ r.branch = FALSE /\ r.failed = FALSE /\ IsReader(r)
  BY DEF ReadTo, IsReader
<1>2. PICK d \in Nat, e \in Nat : d = c + 1 /\ e = c + 4 /\ d + 3 = e /\ e + 3 = c + 7
  OBVIOUS
<1>3. CellAt(s, d, cells[ps[j] + 1]) /\ CellAt(s, e, cells[j])
  BY <1>2
<1>4. /\ d + 2 < Len(s) /\ HasPoint(s, d) /\ SubSeq(s, d, d + 2) = cells[ps[j] + 1]
      /\ s[d] \in 0 .. 255
      /\ HasPoint(s, e) /\ SubSeq(s, e, e + 2) = cells[j]
  BY <1>3 DEF CellAt
<1>5. ~Stopped(s, r)
  <2>1. ~(c >= Len(s)) /\ s[c] # End
    BY <1>2, <1>4 DEF End, Branch
  <2> QED
    BY <1>1, <2>1 DEF Stopped
<1>6. PICK q : q = Read(s, r)
  OBVIOUS
<1>7. q = [cursor |-> d, branch |-> TRUE, previous |-> NoPoint,
           cells |-> r.cells, parents |-> r.parents, failed |-> FALSE]
  BY <1>1, <1>2, <1>5, <1>6, ReadBranch
<1>8. q.cursor = d /\ q.branch = TRUE /\ q.failed = FALSE /\ IsReader(q)
      /\ q.cells = r.cells /\ q.parents = r.parents
  BY <1>7 DEF IsReader
<1>9. ~Stopped(s, q)
  <2>2. d + 2 < Len(s) /\ s[d] \in 0 .. 255
    BY <1>4
  <2>1. ~(d >= Len(s)) /\ s[d] # End
    BY <2>2, NotOver, Zenon
  <2> QED
    BY <1>8, <2>1 DEF Stopped
<1>10. Own(q) = e
  BY <1>2, <1>8 DEF Own
<1>11. PICK start : start = cells[ps[j] + 1]
  OBVIOUS
<1>12. Read(s, q) = [cursor |-> c + 7, branch |-> FALSE, previous |-> cells[j],
                     cells |-> Append(r.cells, cells[j]),
                     parents |-> Append(r.parents, Closest(r.cells, start)),
                     failed |-> FALSE]
  <2>1. s[q.cursor] \in 0 .. 255 /\ HasPoint(s, q.cursor) /\ (q.branch => HasPoint(s, q.cursor + 3))
    BY <1>2, <1>4, <1>8
  <2>2. PICK own : own = SubSeq(s, Own(q), Own(q) + 2)
    OBVIOUS
  <2>3. own = cells[j]
    BY <1>4, <1>10, <2>2
  <2>4. PICK from : from = IF q.branch THEN SubSeq(s, q.cursor, q.cursor + 2)
                           ELSE IF q.previous # NoPoint THEN q.previous ELSE own
    OBVIOUS
  <2>5. from = start
    BY <1>4, <1>8, <1>11, <2>4
  <2>6. Read(s, q) = [cursor |-> Own(q) + 3, branch |-> FALSE, previous |-> own,
                      cells |-> Append(q.cells, own),
                      parents |-> Append(q.parents, Closest(q.cells, from)),
                      failed |-> q.failed]
    BY <1>8, <1>9, <2>1, <2>2, <2>4, ReadPoints, Zenon
  <2> QED
    BY <1>2, <1>8, <1>10, <2>3, <2>5, <2>6, Zenon
<1>13. JointsRead(cells, ps, r.cells, r.parents, j - 1)
  BY DEF ReadTo
<1>14. JointsRead(cells, ps, Append(r.cells, cells[j]), Append(r.parents, Closest(r.cells, start)), j)
  BY <1>11, <1>13, JointRead
<1>15. j # 0
  OBVIOUS
<1> QED
  BY <1>6, <1>12, <1>14, <1>15 DEF ReadTo

(* A reader that has stopped stays as it is.                               *)
LEMMA StoppedStays ==
  ASSUME NEW s, Len(s) \in Nat, NEW k \in 0 .. Len(s), Stopped(s, ReaderAfter(s)[k])
  PROVE  ReaderAfter(s)[Len(s)] = ReaderAfter(s)[k]
<1> DEFINE m == Len(s) - k
           S == {i \in Nat : ReaderAfter(s)[k + i] = ReaderAfter(s)[k]}
<1>1. m \in Nat /\ k + m = Len(s)
  OBVIOUS
<1>2. 0 \in S
  OBVIOUS
<1>3. ASSUME NEW i \in 0 .. m - 1, i \in S
      PROVE  i + 1 \in S
  <2>1. k + i \in 0 .. Len(s) - 1 /\ k + (i + 1) = (k + i) + 1
    OBVIOUS
  <2>2. ReaderAfter(s)[(k + i) + 1] = Read(s, ReaderAfter(s)[k + i])
    BY <2>1, ReaderSteps
  <2>3. ReaderAfter(s)[k + i] = ReaderAfter(s)[k]
    BY <1>3
  <2>4. Read(s, ReaderAfter(s)[k]) = ReaderAfter(s)[k]
    BY ReadStopped
  <2> QED
    BY <2>1, <2>2, <2>3, <2>4
<1> HIDE DEF S
<1>4. 0 .. m \subseteq S
  BY <1>1, <1>2, <1>3, BoundedInduction
<1>5. m \in S
  BY <1>1, <1>4
<1> QED
  BY <1>1, <1>5 DEF S

(* The tokens of a skeleton, from the first to the last.                   *)
LEMMA TokensAre ==
  ASSUME NEW cells, NEW ps, CellsAndParents(cells, ps), NEW T, Grows(cells, ps, T),
         NEW s, s = Append(T[Len(cells)], End)
  PROVE  /\ s \in Seq(Nat) /\ Len(s) \in Nat /\ Len(s) >= 6
         /\ Len(s) = Len(T[Len(cells)]) + 1 /\ Len(T[0]) = 2
         /\ s[1] = Bos /\ s[2] = Articulation /\ s[Len(s)] = End
<1>1. PICK n \in Nat : n = Len(cells) /\ n # 0
  BY DEF CellsAndParents
<1>2. PICK whole \in Seq(Nat) : whole = T[n]
  BY <1>1 DEF Grows
<1>3. s \in Seq(Nat) /\ Len(s) = Len(whole) + 1
      /\ (\A i \in 1 .. Len(whole) : s[i] = whole[i]) /\ s[Len(whole) + 1] = End
  <2>1. End \in Nat
    BY DEF End
  <2>2. s = Append(whole, End)
    BY <1>1, <1>2
  <2> QED
    BY <2>1, <2>2, AppendProperties
<1>4. T[0] = <<Bos, Articulation>>
  BY DEF Grows
<1>5. Len(T[0]) = 2 /\ T[0][1] = Bos /\ T[0][2] = Articulation
  BY <1>4
<1>6. \A j \in 0 .. n : /\ Len(T[j]) \in Nat /\ Len(T[j]) <= Len(whole)
                        /\ \A i \in 1 .. Len(T[j]) : whole[i] = T[j][i]
  BY <1>1, <1>2, WrittenStays
<1>7. PICK l \in Nat : l = Len(whole)
  BY LenProperties
<1>8. 2 <= l /\ \A i \in 1 .. 2 : whole[i] = T[0][i]
  <2>1. 0 \in 0 .. n
    BY <1>1
  <2> QED
    BY <1>5, <1>6, <1>7, <2>1
<1>9. 5 <= l
  <2>1. 1 \in 1 .. Len(cells) /\ 1 \in 0 .. n
    BY <1>1
  <2>2. JointAt(cells, ps, 1, s, Len(T[1 - 1]) + 1, Len(T[1]) + 1)
    BY <2>1, JointIsAt
  <2>3. Len(T[1 - 1]) + 1 = 3
    <3>1. 1 - 1 = 0
      OBVIOUS
    <3>2. T[1 - 1] = T[0]
      BY <3>1
    <3>3. Len(T[1 - 1]) = 2
      BY <1>5, <3>2
    <3> QED
      BY <3>3
  <2>4. JointAt(cells, ps, 1, s, 3, Len(T[1]) + 1)
    BY <2>2, <2>3, Zenon
  <2>5. Len(T[1]) + 1 = 6
    BY <2>4 DEF JointAt, Branches
  <2>6. Len(T[1]) \in Nat /\ Len(T[1]) <= l
    BY <1>6, <1>7, <2>1
  <2> QED
    BY <1>7, <2>5, <2>6
<1>10. s[1] = Bos /\ s[2] = Articulation
  <2>1. 1 \in 1 .. l /\ 2 \in 1 .. l
    BY <1>8
  <2>2. s[1] = whole[1] /\ s[2] = whole[2]
    BY <1>3, <1>7, <2>1
  <2> QED
    BY <1>5, <1>8, <2>2
<1>11. s \in Seq(Nat)
  BY <1>3
<1>12. Len(s) = l + 1 /\ s[l + 1] = End /\ Len(T[Len(cells)]) = l
  BY <1>1, <1>2, <1>3, <1>7
<1> QED
  BY <1>5, <1>7, <1>9, <1>10, <1>11, <1>12

(* Joint after joint is read.                                              *)
LEMMA JointsReadBack ==
  ASSUME NEW cells, NEW ps, CellsAndParents(cells, ps), NEW T, Grows(cells, ps, T),
         NEW s, s = Append(T[Len(cells)], End)
  PROVE  \A j \in 0 .. Len(cells) : \E k \in Nat :
           /\ k + 1 <= Len(T[j])
           /\ ReadTo(cells, ps, ReaderAfter(s)[k], j, Len(T[j]) + 1)
<1> DEFINE Back(j) == \E k \in Nat :
                        /\ k + 1 <= Len(T[j])
                        /\ ReadTo(cells, ps, ReaderAfter(s)[k], j, Len(T[j]) + 1)
           S == {j \in Nat : Back(j)}
<1>1. PICK n \in Nat : n = Len(cells) /\ n # 0
  BY DEF CellsAndParents
<1>2. /\ Len(s) \in Nat /\ Len(s) >= 6
      /\ Len(s) = Len(T[n]) + 1 /\ Len(T[0]) = 2
      /\ s[2] = Articulation
  BY <1>1, TokensAre
<1>3. /\ ReaderAfter(s)[0] = ReaderStart
      /\ \A k \in 0 .. Len(s) - 1 : ReaderAfter(s)[k + 1] = Read(s, ReaderAfter(s)[k])
  BY <1>2, ReaderSteps
<1>4. 0 \in S
  <2>1. ReaderAfter(s)[1] = Read(s, ReaderStart)
    <3>1. 0 \in 0 .. Len(s) - 1 /\ 0 + 1 = 1
      BY <1>2
    <3> QED
      BY <1>3, <3>1
  <2>2. /\ IsReader(ReaderStart) /\ ReaderStart.cursor = 2 /\ ReaderStart.branch = FALSE
        /\ ReaderStart.previous = NoPoint /\ ReaderStart.cells = <<>>
        /\ ReaderStart.parents = <<>> /\ ReaderStart.failed = FALSE
    BY DEF IsReader, ReaderStart
  <2>3. ~Stopped(s, ReaderStart)
    <3>1. ~(2 >= Len(s)) /\ s[2] # End
      BY <1>2 DEF Articulation, End
    <3> QED
      BY <2>2, <3>1 DEF Stopped
  <2>4. s[2] \in Parts \cup Classes
    BY <1>2 DEF Articulation, Classes
  <2>5. Read(s, ReaderStart) = [cursor |-> 2 + 1, branch |-> FALSE, previous |-> NoPoint,
                                cells |-> <<>>, parents |-> <<>>, failed |-> FALSE]
    BY <2>2, <2>3, <2>4, ReadMark
  <2>6. JointsRead(cells, ps, <<>>, <<>>, 0)
    BY EmptySeq DEF JointsRead
  <2>7. PICK r : r = ReaderAfter(s)[1]
    OBVIOUS
  <2>8. r = [cursor |-> 3, branch |-> FALSE, previous |-> NoPoint,
             cells |-> <<>>, parents |-> <<>>, failed |-> FALSE]
    BY <2>1, <2>5, <2>7
  <2>9. r.cells = <<>> /\ r.parents = <<>>
    BY <2>8
  <2>10. ReadTo(cells, ps, r, 0, 3)
    BY <2>6, <2>8, <2>9 DEF ReadTo
  <2>11. Len(T[0]) + 1 = 3 /\ 1 + 1 <= Len(T[0]) /\ 1 \in Nat
    BY <1>2
  <2> QED
    BY <2>7, <2>10, <2>11
<1>5. ASSUME NEW i \in 0 .. n - 1, i \in S
      PROVE  i + 1 \in S
  <2>1. PICK j \in 1 .. n : j = i + 1 /\ j - 1 = i /\ j \in 1 .. Len(cells)
    BY <1>1
  <2>2. PICK k \in Nat : /\ k + 1 <= Len(T[i])
                         /\ ReadTo(cells, ps, ReaderAfter(s)[k], i, Len(T[i]) + 1)
    BY <1>5
  <2>3. PICK c \in Nat : c = Len(T[i]) + 1 /\ Len(T[i]) \in Nat /\ Len(T[i]) <= Len(T[n])
    <3>1. i \in 0 .. Len(cells)
      BY <1>1
    <3>2. Len(T[i]) \in Nat /\ Len(T[i]) <= Len(T[n])
      BY <1>1, <3>1, WrittenStays
    <3> QED
      BY <3>2
  <2>4. k + 2 <= c /\ c <= Len(s)
    BY <1>2, <2>2, <2>3
  <2>5. k \in 0 .. Len(s) - 1 /\ k + 1 \in 0 .. Len(s) - 1
    BY <1>2, <2>4
  <2>6. PICK e \in Nat : e = Len(T[j]) + 1 /\ Len(T[j]) \in Nat
    <3>1. j \in 0 .. Len(cells)
      BY <2>1
    <3>2. Len(T[j]) \in Nat
      BY <3>1, WrittenStays
    <3> QED
      BY <3>2
  <2>7. JointAt(cells, ps, j, s, c, e)
    BY <2>1, <2>3, <2>6, JointIsAt
  <2>8. PICK r : r = ReaderAfter(s)[k] /\ ReadTo(cells, ps, r, j - 1, c)
    BY <2>1, <2>2, <2>3
  <2>9. ReaderAfter(s)[k + 1] = Read(s, r)
    BY <1>3, <2>5, <2>8
  <2>10. CASE ~Branches(ps, j)
    <3>1. CellAt(s, c, cells[j]) /\ e = c + 3
      BY <2>7, <2>10 DEF JointAt
    <3>2. ReadTo(cells, ps, Read(s, r), j, c + 3)
      BY <1>2, <2>1, <2>8, <2>10, <3>1, NextIsRead
    <3>3. k + 1 \in Nat /\ (k + 1) + 1 <= Len(T[j])
      BY <2>4, <2>6, <3>1
    <3>4. ReadTo(cells, ps, ReaderAfter(s)[k + 1], j, Len(T[j]) + 1)
      BY <2>6, <2>9, <3>1, <3>2
    <3> QED
      BY <2>1, <3>3, <3>4
  <2>11. CASE Branches(ps, j)
    <3>1. /\ s[c] = Branch /\ CellAt(s, c + 1, cells[ps[j] + 1])
          /\ CellAt(s, c + 4, cells[j]) /\ e = c + 7
      BY <2>7, <2>11 DEF JointAt
    <3>2. ReadTo(cells, ps, Read(s, Read(s, r)), j, c + 7)
      BY <1>2, <2>1, <2>8, <2>11, <3>1, BranchIsRead
    <3>3. k + 2 \in Nat /\ (k + 2) + 1 <= Len(T[j]) /\ (k + 1) + 1 = k + 2
      BY <2>4, <2>6, <3>1
    <3>4. ReaderAfter(s)[k + 2] = Read(s, Read(s, r))
      BY <1>3, <2>5, <2>9, <3>3
    <3>5. ReadTo(cells, ps, ReaderAfter(s)[k + 2], j, Len(T[j]) + 1)
      BY <2>6, <3>1, <3>2, <3>4
    <3> QED
      BY <2>1, <3>3, <3>5
  <2> QED
    BY <2>10, <2>11
<1> HIDE DEF S
<1>6. 0 .. n \subseteq S
  BY <1>1, <1>4, <1>5, BoundedInduction
<1> QED
  BY <1>1, <1>6 DEF S

(* Whatever skeleton the tokenizer writes, if it has no more joints than   *)
(* the reader takes, the reader accepts it and returns the same cells in   *)
(* the same order, the first joint as the root and every other one hanging *)
(* from an earlier joint in its parent's cell.                             *)
THEOREM ReaderReadsWriter ==
  ASSUME NEW cells, NEW ps, CellsAndParents(cells, ps),
         NEW max \in Nat, Len(cells) <= max
  PROVE  LET reader == Detokenized(Tokenized(cells, ps), max)
         IN reader.ok /\ JointsRead(cells, ps, reader.cells, reader.parents, Len(cells))
<1>1. PICK T : Grows(cells, ps, T) /\ Tokenized(cells, ps) = Append(T[Len(cells)], End)
  BY WriterUnfolds
<1>2. PICK s : s = Tokenized(cells, ps)
  OBVIOUS
<1>3. PICK n \in Nat : n = Len(cells) /\ n # 0
  BY DEF CellsAndParents
<1>4. /\ Len(s) \in Nat /\ Len(s) >= 6 /\ Len(s) = Len(T[n]) + 1
      /\ s[1] = Bos /\ s[Len(s)] = End
  <2>1. s = Append(T[Len(cells)], End)
    BY <1>1, <1>2
  <2>2. /\ Len(s) \in Nat /\ Len(s) >= 6 /\ Len(s) = Len(T[Len(cells)]) + 1
        /\ s[1] = Bos /\ s[Len(s)] = End
    BY <1>1, <2>1, TokensAre
  <2> QED
    BY <1>3, <2>2, Zenon
<1>5. PICK k \in Nat : k + 1 <= Len(T[n]) /\ ReadTo(cells, ps, ReaderAfter(s)[k], n, Len(T[n]) + 1)
  <2>1. n \in 0 .. Len(cells)
    BY <1>3
  <2> QED
    BY <1>1, <1>2, <2>1, JointsReadBack
<1>6. k \in 0 .. Len(s)
  <2>1. n \in 0 .. Len(cells)
    BY <1>3
  <2>2. Len(T[n]) \in Nat
    BY <1>1, <2>1, WrittenStays
  <2> QED
    BY <1>4, <1>5, <2>2
<1>7. PICK r : r = ReaderAfter(s)[k]
  OBVIOUS
<1>8. ReadTo(cells, ps, r, n, Len(s))
  BY <1>4, <1>5, <1>7
<1>9. r.cursor = Len(s) /\ r.failed = FALSE /\ JointsRead(cells, ps, r.cells, r.parents, n)
  BY <1>8 DEF ReadTo
<1>10. Stopped(s, r)
  BY <1>4, <1>9 DEF Stopped
<1>11. ReaderAfter(s)[Len(s)] = r
  BY <1>4, <1>6, <1>7, <1>10, StoppedStays
<1>12. Len(r.cells) \in 1 .. max
  <2>1. Len(r.cells) = n
    BY <1>9 DEF JointsRead
  <2> QED
    BY <1>3, <2>1
<1>13. Detokenized(s, max).ok = TRUE /\ Detokenized(s, max).cells = r.cells
       /\ Detokenized(s, max).parents = r.parents
  BY <1>4, <1>9, <1>11, <1>12 DEF Detokenized
<1> QED
  BY <1>2, <1>3, <1>9, <1>13
=============================================================================
