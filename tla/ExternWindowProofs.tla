------------------------- MODULE ExternWindowProofs -------------------------
(* What the extern window, the recursion limit and the closing of state promise,
   for any interpreters, threads and nesting of calls.

   The stacks are the evidence: NestedIn says what lies below each frame of a
   thread, OneHome that an interpreter runs once and closes once, WindowCounts that
   a window's depth counts the open extern calls. *)
EXTENDS ExternWindow, FiniteSetTheorems, SequenceTheorems, TLAPS

AglKind == {"run", "extern", "body"}
Homes   == {"run", "closing"}

\* The open extern calls of i among the frames s of a thread.
Opened(s, i) == {n \in DOMAIN s : s[n].kind = "extern" /\ s[n].of = i}

\* An extern call has its interpreter's run below it, a body an open call.
Placed(s, n, f) ==
    /\ f.kind \in AglKind => f.of \in Interp
    /\ f.kind = "extern" => \E m \in 1..(n - 1) : s[m].kind = "run" /\ s[m].of = f.of
    /\ f.kind = "body" => \E m \in 1..(n - 1) : s[m].kind = "extern" /\ s[m].of = f.of
    /\ f.kind = "closing" => f.of \notin Lent
    /\ f.kind = "factory" => f.key \in Key

NestedIn(s) == \A n \in DOMAIN s : Placed(s, n, s[n])
Nested == \A t \in Thread : NestedIn(stack[t])

OneHome ==
    /\ \A t, u \in Thread : \A n \in DOMAIN stack[t], m \in DOMAIN stack[u] :
          stack[t][n].kind \in Homes /\ stack[u][m].kind \in Homes /\ stack[t][n].of = stack[u][m].of
          => t = u /\ n = m
    /\ \A t \in Thread : \A n \in DOMAIN stack[t] : stack[t][n].kind \in Homes =>
          IF stack[t][n].of = Host THEN over ELSE stack[t][n].of \in begun

WindowCounts == \A i \in Interp :
    /\ window[i].depth = 0 <=> window[i].thread = Nowhere
    /\ \A t \in Thread : Cardinality(Opened(stack[t], i)) = IF window[i].thread = t THEN window[i].depth ELSE 0

Holding == {i \in Interp : Running(i)}

HoldersCounted == /\ IsFiniteSet(Holding) /\ Cardinality(Holding) = limit.holders
                  /\ limit.holders # 0 => limit.original = BaseLimit

WindowInv == Nested /\ OneHome /\ WindowCounts /\ HoldersCounted /\ LimitKept

\* When there are open calls below n, the active call is one of them.
CallBelow(s, n, a) == (\E m \in 1..(n - 1) : s[m].kind = "extern")
                      => \E m \in 1..(n - 1) : s[m].kind = "extern" /\ s[m].of = a

ActiveIn(s, a) == /\ CallBelow(s, Len(s) + 1, a)
                  /\ \A n \in DOMAIN s : s[n].kind = "extern" => CallBelow(s, n, s[n].saved)
ActiveRight == \A t \in Thread : ActiveIn(stack[t], active[t])

OverAlone == over => \A i \in Lent : ~Running(i)

Ended(b) == IF b = Host THEN over ELSE b \in begun \ Lent /\ ~OnStack(NewFrame("run", b))

Factories == \A t \in Thread : \A n \in DOMAIN stack[t] :
    LET f == stack[t][n] IN
    f.kind = "factory" =>
        /\ \E m \in 1..(n - 1) : stack[t][m].kind = "extern" /\ StateOf(stack[t][m].of) = f.of
        /\ \A e \in DOMAIN bag[f.of] : bag[f.of][e][1] # f.key
        /\ \A u \in Thread : \A m \in DOMAIN stack[u] :
              stack[u][m].kind = "factory" /\ stack[u][m].of = f.of /\ stack[u][m].key = f.key => u = t /\ m = n

\* The values of a bag in the order of creation, then those to close, backwards.
OldestLast(b) ==
    /\ ~Ended(b) => /\ closed[b] = <<>> /\ Len(bag[b]) = made[b]
                    /\ \A n \in DOMAIN bag[b] : bag[b][n][2] = n
    /\ Ended(b) => /\ \A n \in DOMAIN closed[b] : closed[b][n] = made[b] + 1 - n
                   /\ ~OnStack(NewFrame("closing", b)) => Len(closed[b]) = made[b]
    /\ \A t \in Thread : \A n \in DOMAIN stack[t] :
          stack[t][n].kind = "closing" /\ stack[t][n].of = b =>
              /\ Ended(b) /\ Len(closed[b]) + Len(stack[t][n].todo) = made[b]
              /\ \A k \in DOMAIN stack[t][n].todo : stack[t][n].todo[k] = Len(stack[t][n].todo) + 1 - k

StateInv == ActiveRight /\ OverAlone /\ Factories /\ \A b \in Bag : OldestLast(b)

-----------------------------------------------------------------------------
(* Frames of one thread. *)

LEMMA AppendFacts ==
  ASSUME NEW S, NEW s \in Seq(S), NEW f \in S
  PROVE  /\ Append(s, f) \in Seq(S) /\ DOMAIN Append(s, f) = 1..(Len(s) + 1)
         /\ Len(Append(s, f)) = Len(s) + 1 /\ Append(s, f)[Len(s) + 1] = f
         /\ \A n \in 1..Len(s) : Append(s, f)[n] = s[n]
OBVIOUS

LEMMA FrontFacts ==
  ASSUME NEW S, NEW s \in Seq(S), s # <<>>
  PROVE  /\ Len(s) \in Nat \ {0} /\ Last(s) = s[Len(s)] /\ Last(s) \in S
         /\ Front(s) \in Seq(S) /\ DOMAIN Front(s) = 1..(Len(s) - 1)
         /\ Len(Front(s)) = Len(s) - 1
         /\ \A n \in 1..(Len(s) - 1) : Front(s)[n] = s[n]
<1>1. Len(s) \in Nat \ {0} /\ Len(s) - 1 \in Int /\ \A n \in 1..Len(s) : s[n] \in S
  OBVIOUS
<1>2. /\ Front(s) \in Seq(S) /\ Len(Front(s)) = Len(s) - 1
      /\ \A n \in 1..(Len(s) - 1) : Front(s)[n] = s[n]
  <2>1. \A n \in 1..(Len(s) - 1) : s[n] \in S
    BY <1>1
  <2>2. /\ SubSeq(s, 1, Len(s) - 1) \in Seq(S)
        /\ Len(SubSeq(s, 1, Len(s) - 1)) = IF 1 <= Len(s) - 1 THEN (Len(s) - 1) - 1 + 1 ELSE 0
        /\ \A n \in 1..((Len(s) - 1) - 1 + 1) : SubSeq(s, 1, Len(s) - 1)[n] = s[1 + n - 1]
    BY <1>1, <2>1, SubSeqProperties
  <2>3. ASSUME NEW n \in 1..(Len(s) - 1) PROVE n \in 1..((Len(s) - 1) - 1 + 1) /\ 1 + n - 1 = n
    BY <1>1
  <2>4. ASSUME NEW n \in 1..(Len(s) - 1) PROVE SubSeq(s, 1, Len(s) - 1)[n] = s[n]
    BY <2>2, <2>3
  <2>5. Len(SubSeq(s, 1, Len(s) - 1)) = Len(s) - 1
    <3>1. ASSUME NEW k \in Nat \ {0} PROVE (IF 1 <= k - 1 THEN (k - 1) - 1 + 1 ELSE 0) = k - 1
      OBVIOUS
    <3> QED BY <1>1, <2>2, <3>1
  <2> QED BY <2>2, <2>4, <2>5 DEF Front
<1> QED BY <1>1, <1>2 DEF Last

LEMMA PlacedByBelow ==
  ASSUME NEW r, NEW s, NEW n, NEW f, \A m \in 1..(n - 1) : r[m] = s[m], Placed(s, n, f)
  PROVE  Placed(r, n, f)
BY DEF Placed

\* What lies below a frame does not change under it.
LEMMA NestedAppend ==
  ASSUME NEW s \in Seq(Frame), NestedIn(s), NEW f \in Frame, Placed(s, Len(s) + 1, f)
  PROVE  NestedIn(Append(s, f))
<1> DEFINE r == Append(s, f)
<1>1. /\ DOMAIN r = 1..(Len(s) + 1) /\ r[Len(s) + 1] = f
      /\ \A n \in 1..Len(s) : r[n] = s[n]
  BY AppendFacts
<1> HIDE DEF r
<1> SUFFICES ASSUME NEW n \in DOMAIN r PROVE Placed(r, n, r[n])
  BY DEF NestedIn, r
<1>2. Placed(s, n, r[n]) /\ \A m \in 1..(n - 1) : r[m] = s[m]
  BY <1>1 DEF NestedIn
<1> QED BY <1>2, PlacedByBelow

LEMMA NestedFront ==
  ASSUME NEW s \in Seq(Frame), s # <<>>, NestedIn(s)
  PROVE  NestedIn(Front(s))
<1> DEFINE r == Front(s)
<1>1. /\ DOMAIN r = 1..(Len(s) - 1) /\ Len(s) \in Nat \ {0}
      /\ \A n \in 1..(Len(s) - 1) : r[n] = s[n]
  BY FrontFacts
<1> HIDE DEF r
<1> SUFFICES ASSUME NEW n \in DOMAIN r PROVE Placed(r, n, r[n])
  BY DEF NestedIn, r
<1>2. Placed(s, n, r[n]) /\ \A m \in 1..(n - 1) : r[m] = s[m]
  BY <1>1 DEF NestedIn
<1> QED BY <1>2, PlacedByBelow

LEMMA OpenedFinite ==
  ASSUME NEW s \in Seq(Frame), NEW i
  PROVE  /\ IsFiniteSet(Opened(s, i)) /\ Cardinality(Opened(s, i)) \in Nat
         /\ Cardinality(Opened(s, i)) = 0 <=> Opened(s, i) = {}
<1>1. Opened(s, i) \in SUBSET (1..Len(s)) /\ Len(s) \in Nat
  BY DEF Opened
<1>2. IsFiniteSet(1..Len(s))
  BY <1>1, FS_Interval
<1>3. IsFiniteSet(Opened(s, i))
  BY <1>1, <1>2, FS_Subset
<1> QED BY <1>3, FS_CardinalityType, FS_EmptySet

LEMMA OpenedAppend ==
  ASSUME NEW s \in Seq(Frame), NEW f \in Frame, NEW i
  PROVE  Cardinality(Opened(Append(s, f), i)) =
             IF f.kind = "extern" /\ f.of = i THEN Cardinality(Opened(s, i)) + 1
             ELSE Cardinality(Opened(s, i))
<1>1. Opened(Append(s, f), i) = IF f.kind = "extern" /\ f.of = i THEN Opened(s, i) \cup {Len(s) + 1}
                                ELSE Opened(s, i)
  BY AppendFacts DEF Opened
<1>2. Len(s) + 1 \notin Opened(s, i)
  BY DEF Opened
<1> QED BY <1>1, <1>2, OpenedFinite, FS_AddElement

LEMMA OpenedFront ==
  ASSUME NEW s \in Seq(Frame), s # <<>>, NEW i
  PROVE  Cardinality(Opened(Front(s), i)) =
             IF Last(s).kind = "extern" /\ Last(s).of = i THEN Cardinality(Opened(s, i)) - 1
             ELSE Cardinality(Opened(s, i))
<1>1. Opened(Front(s), i) = IF Last(s).kind = "extern" /\ Last(s).of = i THEN Opened(s, i) \ {Len(s)}
                            ELSE Opened(s, i)
  BY FrontFacts DEF Opened
<1>2. Last(s).kind = "extern" /\ Last(s).of = i => Len(s) \in Opened(s, i)
  BY DEF Opened, Last
<1> QED BY <1>1, <1>2, OpenedFinite, FS_RemoveElement

-----------------------------------------------------------------------------
(* A thread's innermost frame, and the three ways a step moves it. *)

LEMMA ExceptTyped ==
  ASSUME NEW S, NEW T, NEW f \in [S -> T], NEW x, NEW v \in T
  PROVE  [f EXCEPT ![x] = v] \in [S -> T]
OBVIOUS

LEMMA NewFrameTyped ==
  ASSUME NEW kind \in {"run", "extern", "body", "factory", "closing"}, NEW of \in Bag
  PROVE  NewFrame(kind, of) \in Frame
BY DEF NewFrame, Frame

LEMMA InnerFrame ==
  ASSUME ExternTypeOK, NEW t \in Thread, Inner(t).kind # "python"
  PROVE  /\ stack[t] \in Seq(Frame) /\ stack[t] # <<>> /\ Inner(t) = Last(stack[t])
         /\ Inner(t) \in Frame /\ Inner(t) = stack[t][Len(stack[t])]
         /\ Len(stack[t]) \in DOMAIN stack[t]
<1>1. stack[t] \in Seq(Frame)
  BY DEF ExternTypeOK
<1>2. stack[t] # <<>>
  BY DEF Inner, NewFrame
<1> QED BY <1>1, <1>2, FrontFacts DEF Inner

LEMMA PushStack ==
  ASSUME ExternTypeOK, NEW t \in Thread, NEW f \in Frame, Push(t, f)
  PROVE  /\ stack' \in [Thread -> Seq(Frame)] /\ stack'[t] = Append(stack[t], f)
         /\ stack[t] \in Seq(Frame) /\ \A u \in Thread \ {t} : stack'[u] = stack[u]
BY AppendFacts DEF ExternTypeOK, Push

LEMMA PopStack ==
  ASSUME ExternTypeOK, NEW t \in Thread, Inner(t).kind # "python", Pop(t)
  PROVE  /\ stack' \in [Thread -> Seq(Frame)] /\ stack'[t] = Front(stack[t])
         /\ \A u \in Thread \ {t} : stack'[u] = stack[u]
<1>1. Front(stack[t]) \in Seq(Frame)
  BY InnerFrame, FrontFacts
<1> QED BY <1>1 DEF ExternTypeOK, Pop

LEMMA InnermostStack ==
  ASSUME ExternTypeOK, NEW t \in Thread, Inner(t).kind # "python", NEW f \in Frame, Innermost(t, f)
  PROVE  /\ stack' \in [Thread -> Seq(Frame)] /\ stack'[t] = Append(Front(stack[t]), f)
         /\ Front(stack[t]) \in Seq(Frame) /\ \A u \in Thread \ {t} : stack'[u] = stack[u]
<1>1. Front(stack[t]) \in Seq(Frame)
  BY InnerFrame, FrontFacts
<1>2. Append(Front(stack[t]), f) \in Seq(Frame)
  BY <1>1, AppendFacts
<1> QED BY <1>1, <1>2 DEF ExternTypeOK, Innermost

\* Where the frames are after each of them.
LEMMA PushedFrames ==
  ASSUME ExternTypeOK, NEW t \in Thread, NEW f \in Frame, Push(t, f)
  PROVE  /\ Len(stack[t]) \in Nat /\ DOMAIN stack[t] = 1..Len(stack[t])
         /\ DOMAIN stack'[t] = 1..(Len(stack[t]) + 1) /\ stack'[t][Len(stack[t]) + 1] = f
         /\ \A n \in DOMAIN stack[t] : stack'[t][n] = stack[t][n]
         /\ \A u \in Thread \ {t} : stack'[u] = stack[u]
<1>1. stack[t] \in Seq(Frame) /\ Len(stack[t]) \in Nat /\ DOMAIN stack[t] = 1..Len(stack[t])
  BY PushStack
<1>2. /\ stack'[t] = Append(stack[t], f)
      /\ \A u \in Thread \ {t} : stack'[u] = stack[u]
  BY PushStack
<1>3. /\ DOMAIN Append(stack[t], f) = 1..(Len(stack[t]) + 1)
      /\ Append(stack[t], f)[Len(stack[t]) + 1] = f
      /\ \A n \in 1..Len(stack[t]) : Append(stack[t], f)[n] = stack[t][n]
  BY <1>1, AppendFacts
<1> QED BY <1>1, <1>2, <1>3

LEMMA PoppedFrames ==
  ASSUME ExternTypeOK, NEW t \in Thread, Inner(t).kind # "python", Pop(t)
  PROVE  /\ Len(stack[t]) \in Nat \ {0} /\ DOMAIN stack[t] = 1..Len(stack[t])
         /\ DOMAIN stack'[t] = 1..(Len(stack[t]) - 1)
         /\ \A n \in DOMAIN stack'[t] : stack'[t][n] = stack[t][n]
         /\ \A u \in Thread \ {t} : stack'[u] = stack[u]
<1>1. stack[t] \in Seq(Frame) /\ stack[t] # <<>>
  BY InnerFrame
<1>2. /\ stack'[t] = Front(stack[t])
      /\ \A u \in Thread \ {t} : stack'[u] = stack[u]
  BY PopStack
<1>3. /\ Len(stack[t]) \in Nat \ {0} /\ DOMAIN stack[t] = 1..Len(stack[t])
      /\ DOMAIN Front(stack[t]) = 1..(Len(stack[t]) - 1)
      /\ \A n \in 1..(Len(stack[t]) - 1) : Front(stack[t])[n] = stack[t][n]
  BY <1>1, FrontFacts
<1> QED BY <1>2, <1>3

LEMMA InnermostFrames ==
  ASSUME ExternTypeOK, NEW t \in Thread, Inner(t).kind # "python", NEW f \in Frame, Innermost(t, f)
  PROVE  /\ Len(stack[t]) \in Nat \ {0} /\ DOMAIN stack[t] = 1..Len(stack[t])
         /\ DOMAIN stack'[t] = DOMAIN stack[t] /\ stack'[t][Len(stack[t])] = f
         /\ \A n \in 1..(Len(stack[t]) - 1) : stack'[t][n] = stack[t][n]
         /\ \A u \in Thread \ {t} : stack'[u] = stack[u]
<1>1. stack[t] \in Seq(Frame) /\ stack[t] # <<>>
  BY InnerFrame
<1>2. /\ Front(stack[t]) \in Seq(Frame) /\ Len(Front(stack[t])) = Len(stack[t]) - 1
      /\ Len(stack[t]) \in Nat \ {0}
      /\ \A n \in 1..(Len(stack[t]) - 1) : Front(stack[t])[n] = stack[t][n]
  BY <1>1, FrontFacts
<1> DEFINE r == Append(Front(stack[t]), f)
<1>3. /\ DOMAIN r = 1..(Len(Front(stack[t])) + 1) /\ r[Len(Front(stack[t])) + 1] = f
      /\ \A n \in 1..Len(Front(stack[t])) : r[n] = Front(stack[t])[n]
  BY <1>2, AppendFacts
<1>4. stack'[t] = r /\ \A u \in Thread \ {t} : stack'[u] = stack[u]
  BY InnermostStack
<1> HIDE DEF r
<1> QED BY <1>1, <1>2, <1>3, <1>4

-----------------------------------------------------------------------------
(* What lies below the frames. *)

LEMMA NestedPush ==
  ASSUME ExternTypeOK, Nested, NEW t \in Thread, NEW f \in Frame, Push(t, f),
         Placed(stack[t], Len(stack[t]) + 1, f)
  PROVE  Nested'
<1>1. NestedIn(stack'[t])
  BY PushStack, NestedAppend DEF Nested
<1> QED BY <1>1, PushStack DEF Nested

LEMMA NestedPop ==
  ASSUME ExternTypeOK, Nested, NEW t \in Thread, Inner(t).kind # "python", Pop(t)
  PROVE  Nested'
<1>1. NestedIn(stack'[t])
  BY InnerFrame, PopStack, NestedFront DEF Nested
<1> QED BY <1>1, PopStack DEF Nested

LEMMA NestedInnermost ==
  ASSUME ExternTypeOK, Nested, NEW t \in Thread, Inner(t).kind # "python", NEW f \in Frame,
         Innermost(t, f), f.kind = "closing", f.of \notin Lent
  PROVE  Nested'
<1>1. Front(stack[t]) \in Seq(Frame) /\ NestedIn(Front(stack[t]))
  BY InnerFrame, FrontFacts, NestedFront DEF Nested
<1>2. Placed(Front(stack[t]), Len(Front(stack[t])) + 1, f)
  BY DEF Placed, AglKind
<1>3. NestedIn(stack'[t])
  BY <1>1, <1>2, InnermostStack, NestedAppend
<1> QED BY <1>3, InnermostStack DEF Nested

-----------------------------------------------------------------------------
(* Runs and the closing of their state. *)

LEMMA HomePush ==
  ASSUME ExternTypeOK, OneHome, NEW t \in Thread, NEW f \in Frame, Push(t, f), f.kind \notin Homes,
         UNCHANGED <<begun, over>>
  PROVE  OneHome'
<1>1. \A u \in Thread : \A n \in DOMAIN stack'[u] :
         stack'[u][n].kind \in Homes => n \in DOMAIN stack[u] /\ stack'[u][n] = stack[u][n]
  BY PushedFrames
<1> QED BY <1>1 DEF OneHome

LEMMA HomePushNew ==
  ASSUME ExternTypeOK, OneHome, NEW t \in Thread, NEW f \in Frame, Push(t, f),
         begun \subseteq begun', over => over',
         IF f.of = Host THEN ~over /\ over' ELSE f.of \notin begun /\ f.of \in begun'
  PROVE  OneHome'
<1> DEFINE top == Len(stack[t]) + 1
<1>1. \A u \in Thread : \A n \in DOMAIN stack'[u] :
         \/ n \in DOMAIN stack[u] /\ stack'[u][n] = stack[u][n]
         \/ u = t /\ n = top /\ stack'[u][n] = f
  BY PushedFrames
<1> HIDE DEF top
<1>2. \A u \in Thread : \A n \in DOMAIN stack[u] : stack[u][n].kind \in Homes => stack[u][n].of # f.of
  BY DEF OneHome
<1> QED BY <1>1, <1>2 DEF OneHome

LEMMA HomePop ==
  ASSUME ExternTypeOK, OneHome, NEW t \in Thread, Inner(t).kind # "python", Pop(t),
         UNCHANGED <<begun, over>>
  PROVE  OneHome'
<1>1. \A u \in Thread : /\ DOMAIN stack'[u] \subseteq DOMAIN stack[u]
                        /\ \A n \in DOMAIN stack'[u] : stack'[u][n] = stack[u][n]
  BY PoppedFrames
<1> QED BY <1>1 DEF OneHome

LEMMA HomeInnermost ==
  ASSUME ExternTypeOK, OneHome, NEW t \in Thread, Inner(t).kind \in Homes, NEW f \in Frame,
         Innermost(t, f), f.of = Inner(t).of, UNCHANGED <<begun, over>>
  PROVE  OneHome'
<1>1. Inner(t) = stack[t][Len(stack[t])] /\ Inner(t).kind # "python" /\ Len(stack[t]) \in DOMAIN stack[t]
  BY InnerFrame DEF Homes
<1>2. \A u \in Thread :
         /\ DOMAIN stack'[u] = DOMAIN stack[u]
         /\ \A n \in DOMAIN stack'[u] : /\ stack'[u][n].kind \in Homes => stack[u][n].kind \in Homes
                                        /\ stack'[u][n].of = stack[u][n].of
  BY <1>1, InnermostFrames
<1> QED BY <1>2 DEF OneHome

-----------------------------------------------------------------------------
(* Open calls. *)

LEMMA CountsKeep ==
  ASSUME WindowCounts, UNCHANGED window,
         \A u \in Thread, i \in Interp : Cardinality(Opened(stack'[u], i)) = Cardinality(Opened(stack[u], i))
  PROVE  WindowCounts'
BY DEF WindowCounts

LEMMA CountsPush ==
  ASSUME ExternTypeOK, WindowCounts, NEW t \in Thread, NEW f \in Frame, Push(t, f), f.kind # "extern",
         UNCHANGED window
  PROVE  WindowCounts'
<1>1. \A i \in Interp : Cardinality(Opened(stack'[t], i)) = Cardinality(Opened(stack[t], i))
  <2>1. stack[t] \in Seq(Frame) /\ stack'[t] = Append(stack[t], f)
    BY PushStack
  <2> QED BY <2>1, OpenedAppend
<1> QED BY <1>1, PushStack, CountsKeep

LEMMA CountsPop ==
  ASSUME ExternTypeOK, WindowCounts, NEW t \in Thread, Inner(t).kind \notin {"python", "extern"}, Pop(t),
         UNCHANGED window
  PROVE  WindowCounts'
<1>1. \A i \in Interp : Cardinality(Opened(stack'[t], i)) = Cardinality(Opened(stack[t], i))
  BY InnerFrame, PopStack, OpenedFront
<1> QED BY <1>1, PopStack, CountsKeep

LEMMA CountsInnermost ==
  ASSUME ExternTypeOK, WindowCounts, NEW t \in Thread, Inner(t).kind \notin {"python", "extern"},
         NEW f \in Frame, f.kind # "extern", Innermost(t, f), UNCHANGED window
  PROVE  WindowCounts'
<1>1. \A i \in Interp : Cardinality(Opened(Front(stack[t]), i)) = Cardinality(Opened(stack[t], i))
  BY InnerFrame, OpenedFront
<1>2. \A i \in Interp : Cardinality(Opened(stack'[t], i)) = Cardinality(Opened(stack[t], i))
  <2>1. Front(stack[t]) \in Seq(Frame) /\ stack'[t] = Append(Front(stack[t]), f)
    BY InnermostStack
  <2> QED BY <1>1, <2>1, OpenedAppend
<1> QED BY <1>2, InnermostStack, CountsKeep

-----------------------------------------------------------------------------
(* Which frames are on the stacks. *)

LEMMA OnStackPush ==
  ASSUME ExternTypeOK, NEW t \in Thread, NEW f \in Frame, Push(t, f), NEW k, NEW b
  PROVE  OnStack(NewFrame(k, b))' <=> OnStack(NewFrame(k, b)) \/ (f.kind = k /\ f.of = b)
<1>1. ASSUME NEW u \in Thread, NEW n \in DOMAIN stack[u]
      PROVE  n \in DOMAIN stack'[u] /\ stack'[u][n] = stack[u][n]
  BY PushedFrames
<1>2. ASSUME NEW u \in Thread, NEW n \in DOMAIN stack'[u]
      PROVE  (n \in DOMAIN stack[u] /\ stack'[u][n] = stack[u][n]) \/ stack'[u][n] = f
  BY PushedFrames
<1>3. \E n \in DOMAIN stack'[t] : stack'[t][n] = f
  BY PushedFrames
<1>4. NewFrame(k, b).kind = k /\ NewFrame(k, b).of = b
  BY DEF NewFrame
<1> QED BY <1>1, <1>2, <1>3, <1>4 DEF OnStack

LEMMA OnStackPop ==
  ASSUME ExternTypeOK, OneHome, NEW t \in Thread, Inner(t).kind # "python", Pop(t), NEW k, NEW b
  PROVE  /\ OnStack(NewFrame(k, b))' => OnStack(NewFrame(k, b))
         /\ OnStack(NewFrame(k, b)) => OnStack(NewFrame(k, b))' \/ (Inner(t).kind = k /\ Inner(t).of = b)
         /\ k \in Homes /\ Inner(t).kind \in Homes /\ Inner(t).of = b => ~OnStack(NewFrame(k, b))'
<1>1. ASSUME NEW u \in Thread, NEW n \in DOMAIN stack'[u]
      PROVE  n \in DOMAIN stack[u] /\ stack'[u][n] = stack[u][n] /\ (u # t \/ n # Len(stack[t]))
  BY PoppedFrames
<1>2. ASSUME NEW u \in Thread, NEW n \in DOMAIN stack[u]
      PROVE  (n \in DOMAIN stack'[u] /\ stack'[u][n] = stack[u][n]) \/ stack[u][n] = Inner(t)
  BY PoppedFrames, InnerFrame
<1>3. Inner(t) = stack[t][Len(stack[t])] /\ Len(stack[t]) \in DOMAIN stack[t]
  BY InnerFrame
<1>4. NewFrame(k, b).kind = k /\ NewFrame(k, b).of = b
  BY DEF NewFrame
<1>5. k \in Homes /\ Inner(t).kind \in Homes /\ Inner(t).of = b => ~OnStack(NewFrame(k, b))'
  BY <1>1, <1>3, <1>4 DEF OnStack, OneHome
<1> QED BY <1>1, <1>2, <1>4, <1>5 DEF OnStack

LEMMA OnStackInnermost ==
  ASSUME ExternTypeOK, OneHome, NEW t \in Thread, Inner(t).kind \in Homes, NEW f \in Frame,
         Innermost(t, f), f.of = Inner(t).of, f.kind \in Homes, NEW k \in Homes, NEW b
  PROVE  OnStack(NewFrame(k, b))' <=> IF b = f.of THEN k = f.kind ELSE OnStack(NewFrame(k, b))
<1> DEFINE top == Len(stack[t])
<1>1. Inner(t) = stack[t][top] /\ Inner(t).kind # "python" /\ top \in DOMAIN stack[t]
  BY InnerFrame DEF Homes
<1>2. ASSUME NEW u \in Thread
      PROVE  /\ DOMAIN stack'[u] = DOMAIN stack[u]
             /\ \A n \in DOMAIN stack[u] : IF u = t /\ n = top THEN stack'[u][n] = f
                                           ELSE stack'[u][n] = stack[u][n]
  BY <1>1, InnermostFrames
<1>3. NewFrame(k, b).kind = k /\ NewFrame(k, b).of = b
  BY DEF NewFrame
<1> HIDE DEF top
<1>4. CASE b = f.of
  <2>1. ASSUME NEW u \in Thread, NEW n \in DOMAIN stack[u], stack[u][n].kind \in Homes, stack[u][n].of = b
        PROVE  u = t /\ n = top
    BY <1>1, <1>4, <2>1 DEF OneHome
  <2> QED BY <1>1, <1>2, <1>3, <1>4, <2>1 DEF OnStack
<1>5. CASE b # f.of
  BY <1>1, <1>2, <1>3, <1>5 DEF OnStack
<1> QED BY <1>4, <1>5

-----------------------------------------------------------------------------
(* The holders of the recursion limit. *)

LEMMA HoldingKeeps ==
  ASSUME HoldersCounted, LimitKept, UNCHANGED limit, Holding' = Holding
  PROVE  (HoldersCounted /\ LimitKept)'
BY DEF HoldersCounted, LimitKept, Holding

LEMMA HoldingPush ==
  ASSUME ExternTypeOK, NEW t \in Thread, NEW f \in Frame, Push(t, f),
         f.kind \notin Homes \/ f.of = Host
  PROVE  Holding' = Holding
<1>1. \A i \in Interp : i # Host
  BY InterpAssumption
<1>2. \A i \in Interp : Running(i)' <=> Running(i)
  BY <1>1, OnStackPush DEF Running, Homes
<1> QED BY <1>2 DEF Holding

LEMMA HoldingPop ==
  ASSUME ExternTypeOK, OneHome, NEW t \in Thread, Inner(t).kind # "python", Pop(t),
         Inner(t).kind \notin Homes \/ Inner(t).of = Host
  PROVE  Holding' = Holding
<1>1. \A i \in Interp : i # Host
  BY InterpAssumption
<1>2. \A i \in Interp : Running(i)' <=> Running(i)
  BY <1>1, OnStackPop DEF Running, Homes
<1> QED BY <1>2 DEF Holding

\* One more run, which began just now.
LEMMA HoldingRuns ==
  ASSUME ExternTypeOK, HoldersCounted, LimitKept, NEW i \in Interp, ~Running(i),
         Holding' = Holding \cup {i}, limit' = Raised(Target[i])
  PROVE  (HoldersCounted /\ LimitKept)'
<1>1. i \notin Holding /\ IsFiniteSet(Holding)
  BY DEF Holding, HoldersCounted
<1>2. IsFiniteSet(Holding') /\ Cardinality(Holding') = Cardinality(Holding) + 1
  BY <1>1, FS_AddElement
<1>3. limit.holders \in Nat /\ limit.now \in Nat /\ \A j \in Interp : Target[j] \in Nat
  BY InterpAssumption DEF ExternTypeOK
<1>4. /\ limit'.holders = limit.holders + 1 /\ limit'.now >= limit.now /\ limit'.now >= Target[i]
      /\ limit'.now \in Nat
      /\ limit'.original = IF limit.holders = 0 THEN limit.now ELSE limit.original
  BY <1>3 DEF Raised, Higher
<1>5. HoldersCounted'
  BY <1>2, <1>3, <1>4 DEF HoldersCounted, LimitKept
<1>6. ASSUME NEW j \in Interp, Running(j)' PROVE limit'.now >= Target[j]
  <2>1. j = i \/ Running(j)
    BY <1>6 DEF Holding
  <2> QED BY <1>3, <1>4, <2>1 DEF LimitKept
<1> QED BY <1>3, <1>4, <1>5, <1>6 DEF LimitKept

\* One fewer: the last one restores what the first one found.
LEMMA HoldingEnds ==
  ASSUME ExternTypeOK, HoldersCounted, LimitKept, NEW i \in Interp, Running(i),
         Holding' = Holding \ {i}, limit' = Lowered
  PROVE  (HoldersCounted /\ LimitKept)' /\ limit.holders # 0
<1>1. i \in Holding /\ IsFiniteSet(Holding)
  BY DEF Holding, HoldersCounted
<1>2. IsFiniteSet(Holding') /\ Cardinality(Holding') = Cardinality(Holding) - 1
  BY <1>1, FS_RemoveElement
<1>3. limit.holders \in Nat /\ limit.holders # 0
  BY <1>1, FS_EmptySet DEF ExternTypeOK, HoldersCounted
<1>4. /\ limit'.holders = limit.holders - 1 /\ limit'.original = limit.original
      /\ limit'.now = IF limit.holders = 1 THEN limit.original ELSE limit.now
  BY DEF Lowered, ExternTypeOK
<1>5. HoldersCounted'
  BY <1>2, <1>3, <1>4 DEF HoldersCounted
<1>6. ASSUME NEW j \in Interp, Running(j)' PROVE limit'.now >= Target[j]
  <2>1. j \in Holding' /\ j \in Holding
    BY <1>6 DEF Holding
  <2>2. limit'.holders # 0
    BY <1>5, <2>1, FS_EmptySet DEF HoldersCounted
  <2> QED BY <1>3, <1>4, <2>1, <2>2 DEF LimitKept, Holding
<1>7. limit'.holders = 0 => limit'.now = BaseLimit
  BY <1>3, <1>4 DEF HoldersCounted
<1> QED BY <1>3, <1>5, <1>6, <1>7 DEF LimitKept

-----------------------------------------------------------------------------
(* The steps. *)

\* A frame that is neither an extern call's nor a run's comes or goes.
LEMMA PushKeeps ==
  ASSUME ExternTypeOK, WindowInv, NEW t \in Thread, NEW f \in Frame, Push(t, f),
         f.kind \in {"body", "factory"}, Placed(stack[t], Len(stack[t]) + 1, f),
         UNCHANGED <<window, limit, begun, over>>
  PROVE  WindowInv'
<1>1. Nested' /\ OneHome' /\ WindowCounts'
  BY NestedPush, HomePush, CountsPush DEF WindowInv, Homes
<1>2. (HoldersCounted /\ LimitKept)'
  BY HoldingPush, HoldingKeeps DEF WindowInv, Homes
<1> QED BY <1>1, <1>2 DEF WindowInv

LEMMA PopKeeps ==
  ASSUME ExternTypeOK, WindowInv, NEW t \in Thread, Inner(t).kind \in {"body", "factory"}, Pop(t),
         UNCHANGED <<window, limit, begun, over>>
  PROVE  WindowInv'
<1>1. Nested' /\ OneHome' /\ WindowCounts'
  BY NestedPop, HomePop, CountsPop DEF WindowInv
<1>2. (HoldersCounted /\ LimitKept)'
  BY HoldingPop, HoldingKeeps DEF WindowInv, Homes
<1> QED BY <1>1, <1>2 DEF WindowInv

\* The innermost frame has below it what its kind asks for.
LEMMA InnerPlaced ==
  ASSUME ExternTypeOK, Nested, NEW t \in Thread, Inner(t).kind # "python"
  PROVE  Placed(stack[t], Len(stack[t]), Inner(t))
BY InnerFrame DEF Nested, NestedIn

LEMMA InnerOnStack ==
  ASSUME ExternTypeOK, NEW t \in Thread, Inner(t).kind # "python"
  PROVE  OnStack(NewFrame(Inner(t).kind, Inner(t).of))
BY InnerFrame DEF OnStack, NewFrame

LEMMA HomesBegan ==
  ASSUME OneHome, NEW i \in Interp, Running(i)
  PROVE  i \in begun
BY InterpAssumption DEF OneHome, Running, OnStack, NewFrame, Homes

LEMMA ReturnCallbackKeeps ==
  ASSUME ExternTypeOK, WindowInv, ReturnCallback
  PROVE  (ExternTypeOK /\ WindowInv)'
<1>1. PICK t \in Thread : Inner(t).kind = "body" /\ Pop(t)
  BY DEF ReturnCallback
<1>2. WindowInv'
  BY <1>1, PopKeeps DEF ReturnCallback
<1>3. ExternTypeOK'
  BY <1>1, PopStack DEF ReturnCallback, ExternTypeOK, state
<1> QED BY <1>2, <1>3

LEMMA UseStateKeeps ==
  ASSUME ExternTypeOK, WindowInv, UseState
  PROVE  (ExternTypeOK /\ WindowInv)'
<1>1. PICK t \in Thread, k \in Key :
         /\ active[t] # Nowhere
         /\ Push(t, [NewFrame("factory", StateOf(active[t])) EXCEPT !.key = k])
  BY DEF UseState
<1> DEFINE f == [NewFrame("factory", StateOf(active[t])) EXCEPT !.key = k]
<1>2. f \in Frame /\ f.kind = "factory" /\ f.key \in Key
  <2>1. StateOf(active[t]) \in Bag
    BY <1>1 DEF ExternTypeOK, StateOf, Bag
  <2>2. NewFrame("factory", StateOf(active[t])) \in Frame
    BY <2>1, NewFrameTyped
  <2> QED BY <2>2 DEF Frame, NewFrame
<1>3. Placed(stack[t], Len(stack[t]) + 1, f)
  BY <1>2 DEF Placed, AglKind
<1>4. WindowInv'
  BY <1>1, <1>2, <1>3, PushKeeps DEF UseState
<1>5. ExternTypeOK'
  BY <1>1, <1>2, PushStack DEF UseState, ExternTypeOK, state
<1> QED BY <1>4, <1>5

LEMMA StoredTyped ==
  ASSUME NEW entries \in Seq(Key \X Nat), NEW k \in Key, NEW v \in Nat
  PROVE  Stored(entries, k, v) \in Seq(Key \X Nat)
<1>1. <<k, v>> \in Key \X Nat
  OBVIOUS
<1>2. \A n \in 1..Len(entries) : (IF entries[n][1] = k THEN <<k, v>> ELSE entries[n]) \in Key \X Nat
  BY <1>1
<1>3. [n \in DOMAIN entries |-> IF entries[n][1] = k THEN <<k, v>> ELSE entries[n]] \in Seq(Key \X Nat)
  BY SMTT(30), <1>2
<1> QED BY <1>1, <1>3 DEF Stored

LEMMA CreateKeeps ==
  ASSUME ExternTypeOK, WindowInv, Create
  PROVE  (ExternTypeOK /\ WindowInv)'
<1>1. PICK t \in Thread :
         /\ Inner(t).kind = "factory" /\ Pop(t)
         /\ \/ /\ made' = [made EXCEPT ![Inner(t).of] = @ + 1]
               /\ bag' = [bag EXCEPT ![Inner(t).of] = Stored(@, Inner(t).key, made[Inner(t).of] + 1)]
            \/ UNCHANGED <<bag, made>>
  BY DEF Create
<1>2. Inner(t).of \in Bag /\ Inner(t).key \in Key
  BY <1>1, InnerFrame, InnerPlaced DEF WindowInv, Placed, Frame
<1>3. WindowInv'
  BY <1>1, PopKeeps DEF Create
<1>4. bag' \in [Bag -> Seq(Key \X Nat)] /\ made' \in [Bag -> Nat]
  <2> DEFINE b == Inner(t).of
  <2>1. bag[b] \in Seq(Key \X Nat) /\ made[b] + 1 \in Nat
    BY <1>2 DEF ExternTypeOK
  <2>2. Stored(bag[b], Inner(t).key, made[b] + 1) \in Seq(Key \X Nat)
    BY <1>2, <2>1, StoredTyped
  <2>3. bag \in [Bag -> Seq(Key \X Nat)] /\ made \in [Bag -> Nat]
    BY DEF ExternTypeOK
  <2>4. [bag EXCEPT ![b] = Stored(bag[b], Inner(t).key, made[b] + 1)] \in [Bag -> Seq(Key \X Nat)]
    BY <2>2, <2>3, ExceptTyped
  <2>5. [made EXCEPT ![b] = made[b] + 1] \in [Bag -> Nat]
    BY <2>1, <2>3, ExceptTyped
  <2> QED BY <1>1, <2>3, <2>4, <2>5
<1>5. ExternTypeOK'
  BY <1>1, <1>4, PopStack DEF Create, ExternTypeOK
<1> QED BY <1>3, <1>5

LEMMA LoweredTyped ==
  ASSUME ExternTypeOK, limit.holders # 0
  PROVE  Lowered \in [now : Nat, holders : Nat, original : Nat]
<1> DEFINE R == [now : Nat, holders : Nat, original : Nat]
           one == [limit EXCEPT !.holders = limit.holders - 1]
           now == IF limit.holders = 1 THEN limit.original ELSE limit.now
<1>1. limit \in R /\ limit.holders - 1 \in Nat /\ now \in Nat
  BY DEF ExternTypeOK
<1>2. one \in R
  BY <1>1
<1>3. [one EXCEPT !.now = now] \in R
  BY <1>1, <1>2
<1> QED BY <1>3 DEF Lowered

LEMMA RunProgramKeeps ==
  ASSUME ExternTypeOK, WindowInv, RunProgram
  PROVE  (ExternTypeOK /\ WindowInv)'
<1>1. PICK t \in Thread, i \in Interp \ begun :
         /\ Push(t, NewFrame("run", i)) /\ begun' = begun \cup {i} /\ limit' = Raised(Target[i])
  BY DEF RunProgram
<1> DEFINE f == NewFrame("run", i)
<1>2. f \in Frame /\ f.kind = "run" /\ f.of = i /\ i # Host /\ i \in Bag
  BY NewFrameTyped, InterpAssumption DEF NewFrame, Bag
<1>3. Placed(stack[t], Len(stack[t]) + 1, f)
  BY <1>2 DEF Placed
<1> HIDE DEF f
<1>4. Nested' /\ OneHome' /\ WindowCounts'
  BY <1>1, <1>2, <1>3, NestedPush, HomePushNew, CountsPush DEF WindowInv, RunProgram, f
<1>5. ~Running(i)
  BY HomesBegan DEF WindowInv
<1>6. Holding' = Holding \cup {i}
  <2>1. \A j \in Interp : Running(j)' <=> Running(j) \/ j = i
    BY <1>1, <1>2, OnStackPush DEF Running, f
  <2> QED BY <2>1 DEF Holding
<1>7. (HoldersCounted /\ LimitKept)'
  BY <1>1, <1>5, <1>6, HoldingRuns DEF WindowInv
<1>8. limit' \in [now : Nat, holders : Nat, original : Nat]
  BY <1>1, InterpAssumption DEF Raised, Higher, ExternTypeOK
<1>9. ExternTypeOK'
  BY <1>1, <1>2, <1>8, PushStack DEF RunProgram, ExternTypeOK, state, f
<1> QED BY <1>4, <1>7, <1>9 DEF WindowInv

LEMMA ClosingTyped ==
  ASSUME ExternTypeOK, NEW b \in Bag
  PROVE  /\ Closing(b) \in Frame /\ Closing(b).kind = "closing" /\ Closing(b).of = b
         /\ Closing(b).todo = Reverse(InBag(b)) /\ InBag(b) \in Seq(Nat)
<1>1. bag[b] \in Seq(Key \X Nat) /\ NewFrame("closing", b) \in Frame
  BY NewFrameTyped DEF ExternTypeOK
<1>2. InBag(b) \in Seq(Nat)
  <2>1. \A n \in 1..Len(bag[b]) : bag[b][n][2] \in Nat
    BY <1>1
  <2>2. [n \in 1..Len(bag[b]) |-> bag[b][n][2]] \in Seq(Nat)
    BY <1>1, <2>1
  <2> QED BY <1>1, <2>2 DEF InBag
<1>3. Reverse(InBag(b)) \in Seq(Nat)
  BY <1>2 DEF Reverse
<1> QED BY <1>1, <1>2, <1>3 DEF Closing, NewFrame, Frame

LEMMA ClearedTyped ==
  ASSUME ExternTypeOK, NEW b \in Bag, Cleared(b)
  PROVE  /\ bag' \in [Bag -> Seq(Key \X Nat)] /\ made' \in [Bag -> Nat] /\ closed' \in [Bag -> Seq(Nat)]
         /\ bag'[b] = <<>> /\ \A c \in Bag \ {b} : bag'[c] = bag[c]
<1>1. bag \in [Bag -> Seq(Key \X Nat)] /\ <<>> \in Seq(Key \X Nat)
  BY DEF ExternTypeOK
<1>2. [bag EXCEPT ![b] = <<>>] \in [Bag -> Seq(Key \X Nat)]
  BY <1>1, ExceptTyped
<1> QED BY <1>1, <1>2 DEF Cleared, ExternTypeOK

LEMMA HostClosesKeeps ==
  ASSUME ExternTypeOK, WindowInv, HostCloses
  PROVE  (ExternTypeOK /\ WindowInv)'
<1>1. PICK t \in Thread : ~over /\ over' = TRUE /\ Push(t, Closing(Host)) /\ Cleared(Host)
  BY DEF HostCloses
<1> DEFINE f == Closing(Host)
<1>2. f \in Frame /\ f.kind = "closing" /\ f.of = Host /\ Host \notin Lent
  BY ClosingTyped, InterpAssumption DEF Bag
<1>3. Placed(stack[t], Len(stack[t]) + 1, f)
  BY <1>2 DEF Placed, AglKind
<1> HIDE DEF f
<1>4. Nested' /\ OneHome' /\ WindowCounts'
  BY <1>1, <1>2, <1>3, NestedPush, HomePushNew, CountsPush DEF WindowInv, HostCloses, f
<1>5. (HoldersCounted /\ LimitKept)'
  BY <1>1, <1>2, HoldingPush, HoldingKeeps DEF WindowInv, HostCloses, f
<1>6. ExternTypeOK'
  <2>1. Host \in Bag
    BY DEF Bag
  <2> QED BY <1>1, <1>2, <2>1, ClearedTyped, PushStack DEF HostCloses, ExternTypeOK, f
<1> QED BY <1>4, <1>5, <1>6 DEF WindowInv

LEMMA EndRunKeeps ==
  ASSUME ExternTypeOK, WindowInv, EndRun
  PROVE  (ExternTypeOK /\ WindowInv)'
<1>1. PICK t \in Thread :
         /\ Inner(t).kind = "run"
         /\ IF Inner(t).of \in Lent THEN Pop(t) /\ limit' = Lowered /\ UNCHANGED state
            ELSE Innermost(t, Closing(Inner(t).of)) /\ Cleared(Inner(t).of) /\ UNCHANGED limit
         /\ UNCHANGED <<active, window, begun, over>>
  BY DEF EndRun
<1> DEFINE i == Inner(t).of
<1>2. i \in Interp /\ i \in Bag /\ Running(i) /\ i # Host
  BY <1>1, InnerPlaced, InnerOnStack, InterpAssumption DEF WindowInv, Placed, AglKind, Running, Bag
<1>3. CASE i \in Lent
  <2>1. Nested' /\ OneHome' /\ WindowCounts'
    BY <1>1, <1>3, NestedPop, HomePop, CountsPop DEF WindowInv
  <2>2. Holding' = Holding \ {i}
    <3>1. \A j \in Interp : Running(j)' <=> Running(j) /\ j # i
      BY <1>1, <1>3, OnStackPop DEF Running, Homes, WindowInv
    <3> QED BY <3>1 DEF Holding
  <2>3. (HoldersCounted /\ LimitKept)' /\ limit.holders # 0
    BY <1>1, <1>2, <1>3, <2>2, HoldingEnds DEF WindowInv
  <2>4. limit' \in [now : Nat, holders : Nat, original : Nat]
    BY <1>1, <1>3, <2>3, LoweredTyped
  <2>5. ExternTypeOK'
    BY <1>1, <1>3, <2>4, PopStack DEF ExternTypeOK, state
  <2> QED BY <2>1, <2>3, <2>5 DEF WindowInv
<1>4. CASE i \notin Lent
  <2>1. Closing(i) \in Frame /\ Closing(i).kind = "closing" /\ Closing(i).of = i
    BY <1>2, ClosingTyped
  <2>2. Nested' /\ OneHome' /\ WindowCounts'
    BY <1>1, <1>4, <2>1, NestedInnermost, HomeInnermost, CountsInnermost DEF WindowInv, Homes
  <2>3. Holding' = Holding
    <3>1. \A j \in Interp : Running(j)' <=> Running(j)
      BY <1>1, <1>2, <1>4, <2>1, OnStackInnermost DEF Running, Homes, WindowInv
    <3> QED BY <3>1 DEF Holding
  <2>4. (HoldersCounted /\ LimitKept)'
    BY <1>1, <1>4, <2>3, HoldingKeeps DEF WindowInv
  <2>5. ExternTypeOK'
    BY <1>1, <1>2, <1>4, <2>1, ClearedTyped, InnermostStack DEF ExternTypeOK
  <2> QED BY <2>2, <2>4, <2>5 DEF WindowInv
<1> QED BY <1>3, <1>4

LEMMA CloseValueKeeps ==
  ASSUME ExternTypeOK, WindowInv, CloseValue
  PROVE  (ExternTypeOK /\ WindowInv)'
<1>1. PICK t \in Thread :
         /\ Inner(t).kind = "closing" /\ Inner(t).todo # <<>>
         /\ closed' = [closed EXCEPT ![Inner(t).of] = Append(@, Head(Inner(t).todo))]
         /\ Innermost(t, [Inner(t) EXCEPT !.todo = Tail(@)])
  BY DEF CloseValue
<1> DEFINE f == [Inner(t) EXCEPT !.todo = Tail(@)]
<1>2. /\ Inner(t) \in Frame /\ Inner(t).todo \in Seq(Nat) /\ Inner(t).of \in Bag /\ Inner(t).of \notin Lent
      /\ Inner(t).kind \in Homes
  BY <1>1, InnerFrame, InnerPlaced DEF Frame, WindowInv, Placed, Homes
<1>3. Head(Inner(t).todo) \in Nat /\ Tail(Inner(t).todo) \in Seq(Nat)
  BY <1>1, <1>2
<1>4. f \in Frame /\ f.kind = "closing" /\ f.of = Inner(t).of
  BY <1>1, <1>2, <1>3 DEF Frame
<1> HIDE DEF f
<1>5. Nested' /\ OneHome' /\ WindowCounts'
  BY <1>1, <1>2, <1>4, NestedInnermost, HomeInnermost, CountsInnermost DEF WindowInv, CloseValue, f
<1>6. Holding' = Holding
  <2>1. \A i \in Interp : Running(i)' <=> Running(i)
    <3> SUFFICES ASSUME NEW i \in Interp PROVE Running(i)' <=> Running(i)
      OBVIOUS
    <3>1. CASE i = f.of
      <4>1. OnStack(NewFrame("closing", i)) /\ OnStack(NewFrame("closing", i))' /\ i \notin Lent
        BY <1>1, <1>2, <1>4, <3>1, InnerOnStack, OnStackInnermost DEF Homes, WindowInv, f
      <4> QED BY <4>1 DEF Running
    <3>2. CASE i # f.of
      BY <1>1, <1>2, <1>4, <3>2, OnStackInnermost DEF Running, Homes, WindowInv, f
    <3> QED BY <3>1, <3>2
  <2> QED BY <2>1 DEF Holding
<1>7. (HoldersCounted /\ LimitKept)'
  BY <1>6, HoldingKeeps DEF WindowInv, CloseValue
<1>8. closed' \in [Bag -> Seq(Nat)]
  <2>1. Append(closed[Inner(t).of], Head(Inner(t).todo)) \in Seq(Nat) /\ closed \in [Bag -> Seq(Nat)]
    BY <1>2, <1>3 DEF ExternTypeOK
  <2> QED BY <1>1, <2>1, ExceptTyped
<1>9. ExternTypeOK'
  BY <1>1, <1>4, <1>8, InnermostStack DEF CloseValue, ExternTypeOK, f
<1> QED BY <1>5, <1>7, <1>9 DEF WindowInv

LEMMA AllClosedKeeps ==
  ASSUME ExternTypeOK, WindowInv, AllClosed
  PROVE  (ExternTypeOK /\ WindowInv)'
<1>1. PICK t \in Thread : /\ Inner(t).kind = "closing" /\ Pop(t)
                          /\ limit' = IF Inner(t).of = Host THEN limit ELSE Lowered
  BY DEF AllClosed
<1> DEFINE i == Inner(t).of
<1>2. i \in Bag /\ i \notin Lent /\ OnStack(NewFrame("closing", i))
  BY <1>1, InnerFrame, InnerPlaced, InnerOnStack DEF Frame, WindowInv, Placed
<1>3. Nested' /\ OneHome' /\ WindowCounts'
  BY <1>1, NestedPop, HomePop, CountsPop DEF WindowInv, AllClosed
<1>4. (HoldersCounted /\ LimitKept)' /\ limit' \in [now : Nat, holders : Nat, original : Nat]
  <2>1. CASE i = Host
    BY <1>1, <2>1, HoldingPop, HoldingKeeps DEF WindowInv, ExternTypeOK
  <2>2. CASE i # Host
    <3>1. i \in Interp /\ Running(i)
      BY <1>2, <2>2 DEF Bag, Running
    <3>2. Holding' = Holding \ {i}
      <4>1. \A j \in Interp : Running(j)' <=> Running(j) /\ j # i
        BY <1>1, <1>2, OnStackPop DEF Running, Homes, WindowInv
      <4> QED BY <4>1 DEF Holding
    <3>3. (HoldersCounted /\ LimitKept)' /\ limit.holders # 0
      BY <1>1, <2>2, <3>1, <3>2, HoldingEnds DEF WindowInv
    <3> QED BY <1>1, <2>2, <3>3, LoweredTyped
  <2> QED BY <2>1, <2>2
<1>5. ExternTypeOK'
  BY <1>1, <1>4, PopStack DEF AllClosed, ExternTypeOK, state
<1> QED BY <1>3, <1>4, <1>5 DEF WindowInv

\* A thread that may open a call of i has a frame of i's run.
LEMMA OpensKeeps ==
  ASSUME ExternTypeOK, WindowInv, NEW t \in Thread, NEW i \in Interp, Opens(t, i),
         \E m \in DOMAIN stack[t] : stack[t][m].kind = "run" /\ stack[t][m].of = i
  PROVE  (ExternTypeOK /\ WindowInv)'
<1> DEFINE f == [NewFrame("extern", i) EXCEPT !.saved = active[t]]
<1>1. f \in Frame /\ f.kind = "extern" /\ f.of = i
  <2>1. NewFrame("extern", i) \in Frame /\ active[t] \in Interp \cup {Nowhere}
    BY NewFrameTyped DEF Bag, ExternTypeOK
  <2> QED BY <2>1 DEF Frame, NewFrame
<1>2. Push(t, f) /\ UNCHANGED <<limit, state, begun, over>>
  BY DEF Opens
<1>3. Placed(stack[t], Len(stack[t]) + 1, f)
  <2>1. DOMAIN stack[t] = 1..Len(stack[t])
    BY DEF ExternTypeOK
  <2> QED BY <1>1, <2>1 DEF Placed
<1> HIDE DEF f
<1>4. Nested' /\ OneHome'
  BY <1>1, <1>2, <1>3, NestedPush, HomePush DEF WindowInv, Homes
<1>5. WindowCounts'
  <2>1. /\ window[i].depth \in Nat /\ window[i].thread \in {t, Nowhere}
        /\ window' = [window EXCEPT ![i] = [depth |-> window[i].depth + 1, thread |-> t]]
        /\ window \in [Interp -> [depth : Nat, thread : Thread \cup {Nowhere}]] /\ t # Nowhere
    BY InterpAssumption DEF Opens, ExternTypeOK
  <2>2. stack[t] \in Seq(Frame) /\ stack'[t] = Append(stack[t], f) /\ \A u \in Thread \ {t} : stack'[u] = stack[u]
    BY <1>1, <1>2, PushStack
  <2>3. \A j \in Interp : Cardinality(Opened(stack'[t], j)) = IF j = i THEN Cardinality(Opened(stack[t], j)) + 1
                                                              ELSE Cardinality(Opened(stack[t], j))
    BY <1>1, <2>2, OpenedAppend
  <2>4. \A j \in Interp : /\ window[j].depth = 0 <=> window[j].thread = Nowhere
                          /\ \A u \in Thread : Cardinality(Opened(stack[u], j))
                                                = IF window[j].thread = u THEN window[j].depth ELSE 0
    BY DEF WindowCounts, WindowInv
  <2>5. Nowhere \notin Thread
    BY InterpAssumption
  <2>6. window'[i] = [depth |-> window[i].depth + 1, thread |-> t]
        /\ \A j \in Interp \ {i} : window'[j] = window[j]
    BY <2>1
  <2>7. window'[i].depth = window[i].depth + 1 /\ window'[i].thread = t
    BY <2>6
  <2> SUFFICES ASSUME NEW j \in Interp
               PROVE  /\ window'[j].depth = 0 <=> window'[j].thread = Nowhere
                      /\ \A u \in Thread : Cardinality(Opened(stack'[u], j))
                                            = IF window'[j].thread = u THEN window'[j].depth ELSE 0
    BY DEF WindowCounts
  <2>0. \A u \in Thread \ {t} : stack'[u] = stack[u]
    BY <2>2
  <2>8. CASE j = i
    <3>1. window[i].depth \in Nat /\ window[i].thread \in {t, Nowhere}
      BY <2>1
    <3> QED BY <2>0, <2>3, <2>4, <2>5, <2>7, <2>8, <3>1
  <2>9. CASE j # i
    BY <2>0, <2>3, <2>4, <2>6, <2>9
  <2> QED BY <2>8, <2>9
<1>6. (HoldersCounted /\ LimitKept)'
  BY <1>1, <1>2, HoldingPush, HoldingKeeps DEF WindowInv, Homes
<1>7. ExternTypeOK'
  <2>1. window' \in [Interp -> [depth : Nat, thread : Thread \cup {Nowhere}]] /\ active' \in [Thread -> Interp \cup {Nowhere}]
    BY DEF Opens, ExternTypeOK
  <2> QED BY <1>1, <1>2, <2>1, PushStack DEF ExternTypeOK, state
<1> QED BY <1>4, <1>5, <1>6, <1>7 DEF WindowInv

LEMMA CallExternKeeps ==
  ASSUME ExternTypeOK, WindowInv, CallExtern
  PROVE  (ExternTypeOK /\ WindowInv)'
<1>1. PICK t \in Thread : Inner(t).kind \in {"run", "body"} /\ Opens(t, Inner(t).of)
  BY DEF CallExtern, InAgl
<1>2. /\ Inner(t) = stack[t][Len(stack[t])] /\ Len(stack[t]) \in DOMAIN stack[t]
      /\ DOMAIN stack[t] = 1..Len(stack[t]) /\ Len(stack[t]) \in Nat
      /\ Placed(stack[t], Len(stack[t]), Inner(t))
  BY <1>1, InnerFrame, InnerPlaced DEF WindowInv
<1>3. Inner(t).of \in Interp
  BY <1>1, <1>2 DEF Placed, AglKind
<1>4. \E m \in DOMAIN stack[t] : stack[t][m].kind = "run" /\ stack[t][m].of = Inner(t).of
  <2>1. CASE Inner(t).kind = "run"
    BY <1>2, <2>1
  <2>2. CASE Inner(t).kind = "body"
    <3>1. PICK m \in DOMAIN stack[t] : stack[t][m].kind = "extern" /\ stack[t][m].of = Inner(t).of
      BY <1>2, <2>2 DEF Placed
    <3>2. Placed(stack[t], m, stack[t][m])
      BY DEF WindowInv, Nested, NestedIn
    <3> QED BY <1>2, <3>1, <3>2 DEF Placed
  <2> QED BY <1>1, <2>1, <2>2
<1> QED BY <1>1, <1>3, <1>4, OpensKeeps

\* The owner of a window has an open call, and the run that made it, below.
LEMMA OwnerHasCall ==
  ASSUME ExternTypeOK, WindowInv, NEW t \in Thread, NEW i \in Interp, Owns(t, i)
  PROVE  /\ \E m \in DOMAIN stack[t] : stack[t][m].kind = "extern" /\ stack[t][m].of = i
         /\ \E m \in DOMAIN stack[t] : stack[t][m].kind = "run" /\ stack[t][m].of = i
<1>1. stack[t] \in Seq(Frame) /\ DOMAIN stack[t] = 1..Len(stack[t]) /\ Len(stack[t]) \in Nat
  BY DEF ExternTypeOK
<1>2. Opened(stack[t], i) # {}
  BY <1>1, OpenedFinite DEF WindowInv, WindowCounts, Owns
<1>3. PICK m \in DOMAIN stack[t] : stack[t][m].kind = "extern" /\ stack[t][m].of = i
  BY <1>2 DEF Opened
<1>4. Placed(stack[t], m, stack[t][m])
  BY DEF WindowInv, Nested, NestedIn
<1> QED BY <1>1, <1>3, <1>4 DEF Placed

LEMMA CallbackKeeps ==
  ASSUME ExternTypeOK, WindowInv, Callback
  PROVE  (ExternTypeOK /\ WindowInv)'
<1>1. PICK t \in Thread, i \in Interp :
         /\ Owns(t, i)
         /\ \/ Push(t, NewFrame("body", i)) /\ UNCHANGED <<active, window, limit, state, begun, over>>
            \/ Opens(t, i)
  BY DEF Callback
<1>2. CASE Opens(t, i)
  BY <1>1, <1>2, OwnerHasCall, OpensKeeps
<1>3. CASE Push(t, NewFrame("body", i)) /\ UNCHANGED <<active, window, limit, state, begun, over>>
  <2> DEFINE f == NewFrame("body", i)
  <2>1. f \in Frame /\ f.kind = "body" /\ f.of = i
    BY NewFrameTyped DEF NewFrame, Bag
  <2>2. Placed(stack[t], Len(stack[t]) + 1, f)
    <3>1. DOMAIN stack[t] = 1..Len(stack[t])
      BY DEF ExternTypeOK
    <3> QED BY <1>1, <2>1, <3>1, OwnerHasCall DEF Placed
  <2> HIDE DEF f
  <2>3. WindowInv'
    BY <1>3, <2>1, <2>2, PushKeeps DEF f
  <2>4. ExternTypeOK'
    BY <1>3, <2>1, PushStack DEF ExternTypeOK, state, f
  <2> QED BY <2>3, <2>4
<1> QED BY <1>1, <1>2, <1>3

LEMMA ReturnExternKeeps ==
  ASSUME ExternTypeOK, WindowInv, ReturnExtern
  PROVE  (ExternTypeOK /\ WindowInv)'
<1>1. PICK t \in Thread :
         /\ Inner(t).kind = "extern" /\ Pop(t)
         /\ active' = [active EXCEPT ![t] = Inner(t).saved]
         /\ window' = [window EXCEPT ![Inner(t).of] =
                          [depth |-> window[Inner(t).of].depth - 1,
                           thread |-> IF window[Inner(t).of].depth = 1 THEN Nowhere ELSE t]]
  BY DEF ReturnExtern, Previous
<1> DEFINE i == Inner(t).of
<1>2. i \in Interp /\ Inner(t).saved \in Interp \cup {Nowhere}
  BY <1>1, InnerFrame, InnerPlaced DEF Frame, WindowInv, Placed, AglKind
<1>3. Nested' /\ OneHome'
  BY <1>1, NestedPop, HomePop DEF WindowInv, ReturnExtern
<1>4. (HoldersCounted /\ LimitKept)'
  BY <1>1, HoldingPop, HoldingKeeps DEF WindowInv, Homes, ReturnExtern
<1>5. /\ window \in [Interp -> [depth : Nat, thread : Thread \cup {Nowhere}]] /\ Nowhere \notin Thread
      /\ \A j \in Interp : /\ window[j].depth = 0 <=> window[j].thread = Nowhere
                           /\ \A u \in Thread : Cardinality(Opened(stack[u], j))
                                                 = IF window[j].thread = u THEN window[j].depth ELSE 0
  BY InterpAssumption DEF WindowCounts, WindowInv, ExternTypeOK
<1>6. /\ stack'[t] = Front(stack[t]) /\ \A u \in Thread \ {t} : stack'[u] = stack[u]
      /\ stack[t] \in Seq(Frame) /\ stack[t] # <<>> /\ Inner(t) = Last(stack[t])
  BY <1>1, PopStack, InnerFrame
<1>7. \A j \in Interp : Cardinality(Opened(stack'[t], j)) = IF j = i THEN Cardinality(Opened(stack[t], j)) - 1
                                                            ELSE Cardinality(Opened(stack[t], j))
  BY <1>1, <1>6, OpenedFront
<1>8. window[i].thread = t /\ window[i].depth \in Nat \ {0}
  <2>1. Opened(stack[t], i) # {}
    BY <1>1, InnerFrame DEF Opened
  <2>2. Cardinality(Opened(stack[t], i)) # 0
    BY <1>6, <2>1, OpenedFinite
  <2> QED BY <1>2, <1>5, <2>2
<1>9. /\ window'[i].depth = window[i].depth - 1
      /\ window'[i].thread = IF window[i].depth = 1 THEN Nowhere ELSE t
      /\ \A j \in Interp \ {i} : window'[j] = window[j]
  BY <1>1, <1>2, <1>5
<1>10. WindowCounts'
  <2> SUFFICES ASSUME NEW j \in Interp
               PROVE  /\ window'[j].depth = 0 <=> window'[j].thread = Nowhere
                      /\ \A u \in Thread : Cardinality(Opened(stack'[u], j))
                                            = IF window'[j].thread = u THEN window'[j].depth ELSE 0
    BY DEF WindowCounts
  <2>1. CASE j = i
    BY <1>5, <1>6, <1>7, <1>8, <1>9, <2>1
  <2>2. CASE j # i
    BY <1>5, <1>6, <1>7, <1>9, <2>2
  <2> QED BY <2>1, <2>2
<1>11. ExternTypeOK'
  <2>1. [depth |-> window[i].depth - 1, thread |-> IF window[i].depth = 1 THEN Nowhere ELSE t]
            \in [depth : Nat, thread : Thread \cup {Nowhere}]
    BY <1>8
  <2>2. window' \in [Interp -> [depth : Nat, thread : Thread \cup {Nowhere}]]
    BY <1>1, <1>5, <2>1, ExceptTyped
  <2>3. active' \in [Thread -> Interp \cup {Nowhere}]
    BY <1>1, <1>2 DEF ExternTypeOK
  <2> QED BY <1>1, <2>2, <2>3, PopStack DEF ReturnExtern, ExternTypeOK, state
<1> QED BY <1>3, <1>4, <1>10, <1>11 DEF WindowInv

LEMMA StackKept ==
  ASSUME WindowInv, UNCHANGED <<stack, window, limit, begun, over>>
  PROVE  WindowInv'
<1>1. Nested' /\ OneHome' /\ WindowCounts'
  BY DEF WindowInv, Nested, OneHome, WindowCounts
<1>2. Holding' = Holding
  BY DEF Holding, Running, OnStack
<1>3. (HoldersCounted /\ LimitKept)'
  BY <1>2, HoldingKeeps DEF WindowInv
<1> QED BY <1>1, <1>3 DEF WindowInv

LEMMA SpawnKeeps ==
  ASSUME ExternTypeOK, WindowInv, Spawn
  PROVE  (ExternTypeOK /\ WindowInv)'
<1>1. PICK t \in Thread, u \in Thread : \E c \in {Nowhere, active[t]} : active' = [active EXCEPT ![u] = c]
  BY DEF Spawn
<1>2. active' \in [Thread -> Interp \cup {Nowhere}]
  BY <1>1 DEF ExternTypeOK
<1>3. ExternTypeOK'
  BY <1>2 DEF Spawn, ExternTypeOK, state
<1> QED BY <1>3, StackKept DEF Spawn

LEMMA WindowNext ==
  ASSUME ExternTypeOK, WindowInv, [ExternNext]_externVars
  PROVE  (ExternTypeOK /\ WindowInv)'
<1>1. CASE RunProgram \/ EndRun \/ HostCloses \/ CloseValue \/ AllClosed
  BY <1>1, RunProgramKeeps, EndRunKeeps, HostClosesKeeps, CloseValueKeeps, AllClosedKeeps
<1>2. CASE CallExtern \/ ReturnExtern \/ Callback \/ ReturnCallback \/ Spawn
  BY <1>2, CallExternKeeps, ReturnExternKeeps, CallbackKeeps, ReturnCallbackKeeps, SpawnKeeps
<1>3. CASE UseState \/ Create
  BY <1>3, UseStateKeeps, CreateKeeps
<1>4. CASE UNCHANGED externVars
  BY <1>4, StackKept DEF externVars, state, ExternTypeOK
<1> QED BY <1>1, <1>2, <1>3, <1>4 DEF ExternNext

LEMMA WindowInit ==
  ASSUME ExternInit
  PROVE  ExternTypeOK /\ WindowInv
<1>1. ExternTypeOK
  <2>1. <<>> \in Seq(Frame) /\ <<>> \in Seq(Key \X Nat) /\ <<>> \in Seq(Nat)
    OBVIOUS
  <2> QED BY <2>1, InterpAssumption DEF ExternInit, ExternTypeOK
<1>2. Nested /\ OneHome
  BY DEF ExternInit, Nested, NestedIn, OneHome
<1>3. WindowCounts
  <2>1. \A t \in Thread, i \in Interp : Opened(stack[t], i) = {}
    BY DEF ExternInit, Opened
  <2> QED BY <2>1, InterpAssumption, FS_EmptySet DEF ExternInit, WindowCounts
<1>4. \A i \in Interp : ~Running(i)
  BY DEF ExternInit, Running, OnStack
<1>5. HoldersCounted /\ LimitKept
  <2>1. Holding = {}
    BY <1>4 DEF Holding
  <2> QED BY <1>4, <2>1, FS_EmptySet DEF HoldersCounted, LimitKept, ExternInit
<1> QED BY <1>1, <1>2, <1>3, <1>5 DEF WindowInv

LEMMA WindowAlways == ExternSpec => [](ExternTypeOK /\ WindowInv)
<1>1. ExternInit => ExternTypeOK /\ WindowInv
  BY WindowInit
<1>2. ExternTypeOK /\ WindowInv /\ [ExternNext]_externVars => (ExternTypeOK /\ WindowInv)'
  BY WindowNext
<1> QED BY <1>1, <1>2, PTL DEF ExternSpec

\* Frames, windows and bags are well typed, loose use of state included (ExternCallWindow,
\* ActiveCall, ExternRuntimeState).
THEOREM ExternTyped == ExternSpec => []ExternTypeOK
BY WindowAlways, PTL

\* The recursion limit of the process (raised_recursion_limit): while runs overlap, on
\* one thread or several, each has the limit it asked for, and with the last one the
\* limit is what it was before the first.
THEOREM LimitIsKept == ExternSpec => []LimitKept
<1>1. WindowInv => LimitKept
  BY DEF WindowInv
<1> QED BY <1>1, WindowAlways, PTL

\* require_active: AgL code of an interpreter runs on one thread, and a callback only
\* while a call of its interpreter is open below it.
THEOREM CallbacksInWindow == ExternSpec => []CallbackInWindow
<1>1. ASSUME ExternTypeOK, WindowInv PROVE CallbackInWindow
  <2> SUFFICES ASSUME NEW i \in Interp
               PROVE  /\ \A f, g \in Frames(i) : f[1] = g[1]
                      /\ \A f \in Frames(i) : stack[f[1]][f[2]].kind = "body" =>
                             \E g \in Frames(i) : g[2] < f[2] /\ stack[g[1]][g[2]].kind = "extern"
    BY DEF CallbackInWindow
  <2>1. ASSUME NEW f \in Frames(i)
        PROVE  /\ f[1] \in Thread /\ f[2] \in DOMAIN stack[f[1]] /\ f[2] \in Nat
               /\ stack[f[1]][f[2]].of = i /\ stack[f[1]][f[2]].kind \in AglKind
               /\ DOMAIN stack[f[1]] = 1..Len(stack[f[1]]) /\ Len(stack[f[1]]) \in Nat
               /\ Placed(stack[f[1]], f[2], stack[f[1]][f[2]])
    <3>1. /\ f[1] \in Thread /\ f[2] \in DOMAIN stack[f[1]] /\ stack[f[1]][f[2]].of = i
          /\ stack[f[1]][f[2]].kind \in AglKind
      BY DEF Frames, AglKind
    <3>2. NestedIn(stack[f[1]]) /\ stack[f[1]] \in Seq(Frame)
      BY <1>1, <3>1 DEF WindowInv, Nested, ExternTypeOK
    <3> QED BY <3>1, <3>2 DEF NestedIn
  <2>2. ASSUME NEW f \in Frames(i), stack[f[1]][f[2]].kind = "body"
        PROVE  \E n \in DOMAIN stack[f[1]] : /\ n < f[2] /\ stack[f[1]][n].kind = "extern"
                                             /\ stack[f[1]][n].of = i
    BY <2>1, <2>2 DEF Placed
  <2>3. ASSUME NEW t \in Thread, NEW n \in DOMAIN stack[t], stack[t][n].of = i, stack[t][n].kind = "extern"
        PROVE  /\ \E m \in DOMAIN stack[t] : stack[t][m].kind = "run" /\ stack[t][m].of = i
               /\ <<t, n>> \in Frames(i)
    <3>1. NestedIn(stack[t]) /\ stack[t] \in Seq(Frame)
      BY <1>1 DEF WindowInv, Nested, ExternTypeOK
    <3>2. Placed(stack[t], n, stack[t][n]) /\ DOMAIN stack[t] = 1..Len(stack[t]) /\ Len(stack[t]) \in Nat
      BY <3>1 DEF NestedIn
    <3> QED BY <2>3, <3>2 DEF Placed, Frames
  <2>4. ASSUME NEW f \in Frames(i)
        PROVE  \E m \in DOMAIN stack[f[1]] : stack[f[1]][m].kind = "run" /\ stack[f[1]][m].of = i
    <3>1. CASE stack[f[1]][f[2]].kind = "run"
      BY <2>1, <3>1
    <3>2. CASE stack[f[1]][f[2]].kind = "extern"
      BY <2>1, <2>3, <3>2
    <3>3. CASE stack[f[1]][f[2]].kind = "body"
      BY <2>1, <2>2, <2>3, <3>3
    <3> QED BY <2>1, <3>1, <3>2, <3>3 DEF AglKind
  <2>5. ASSUME NEW f \in Frames(i), NEW g \in Frames(i) PROVE f[1] = g[1]
    <3>1. PICK m \in DOMAIN stack[f[1]] : stack[f[1]][m].kind = "run" /\ stack[f[1]][m].of = i
      BY <2>4
    <3>2. PICK n \in DOMAIN stack[g[1]] : stack[g[1]][n].kind = "run" /\ stack[g[1]][n].of = i
      BY <2>4
    <3> QED BY <1>1, <2>1, <3>1, <3>2 DEF WindowInv, OneHome, Homes
  <2>6. ASSUME NEW f \in Frames(i), stack[f[1]][f[2]].kind = "body"
        PROVE  \E g \in Frames(i) : g[2] < f[2] /\ stack[g[1]][g[2]].kind = "extern"
    <3>1. PICK n \in DOMAIN stack[f[1]] : n < f[2] /\ stack[f[1]][n].kind = "extern" /\ stack[f[1]][n].of = i
      BY <2>2, <2>6
    <3>2. <<f[1], n>> \in Frames(i)
      BY <2>1, <2>3, <3>1
    <3> QED BY <3>1, <3>2
  <2> QED BY <2>5, <2>6
<1>2. ExternTypeOK /\ WindowInv => CallbackInWindow
  BY <1>1
<1> QED BY <1>2, WindowAlways, PTL

-----------------------------------------------------------------------------
(* The active call of a thread. *)

LEMMA CallBelowByBelow ==
  ASSUME NEW r, NEW s, NEW n, NEW a, \A m \in 1..(n - 1) : r[m] = s[m], CallBelow(s, n, a)
  PROVE  CallBelow(r, n, a)
BY DEF CallBelow

LEMMA ActiveAppend ==
  ASSUME NEW s \in Seq(Frame), NEW a, ActiveIn(s, a), NEW f \in Frame
  PROVE  /\ f.kind # "extern" => ActiveIn(Append(s, f), a)
         /\ f.kind = "extern" /\ f.saved = a => ActiveIn(Append(s, f), f.of)
<1> DEFINE r == Append(s, f)
<1>1. /\ DOMAIN r = 1..(Len(s) + 1) /\ Len(r) = Len(s) + 1 /\ r[Len(s) + 1] = f /\ Len(s) \in Nat
      /\ DOMAIN s = 1..Len(s) /\ \A n \in 1..Len(s) : r[n] = s[n]
  BY AppendFacts
<1> HIDE DEF r
<1>2. ASSUME NEW n \in 1..Len(s), r[n].kind = "extern" PROVE CallBelow(r, n, r[n].saved)
  <2>1. CallBelow(s, n, s[n].saved) /\ r[n] = s[n] /\ \A m \in 1..(n - 1) : r[m] = s[m]
    BY <1>1, <1>2 DEF ActiveIn
  <2> QED BY <2>1, CallBelowByBelow
<1>3. CallBelow(r, Len(s) + 1, a)
  BY <1>1, CallBelowByBelow DEF ActiveIn
<1>4. ASSUME f.kind # "extern" PROVE ActiveIn(r, a)
  <2>1. CallBelow(r, Len(s) + 2, a)
    BY <1>1, <1>3, <1>4 DEF CallBelow
  <2> QED BY <1>1, <1>2, <1>4, <2>1 DEF ActiveIn
<1>5. ASSUME f.kind = "extern", f.saved = a PROVE ActiveIn(r, f.of)
  <2>1. CallBelow(r, Len(s) + 2, f.of)
    BY <1>1, <1>5 DEF CallBelow
  <2> QED BY <1>1, <1>2, <1>3, <1>5, <2>1 DEF ActiveIn
<1> QED BY <1>4, <1>5 DEF r

LEMMA ActiveFront ==
  ASSUME NEW s \in Seq(Frame), s # <<>>, NEW a, ActiveIn(s, a)
  PROVE  /\ Last(s).kind # "extern" => ActiveIn(Front(s), a)
         /\ Last(s).kind = "extern" => ActiveIn(Front(s), Last(s).saved)
<1> DEFINE r == Front(s)
<1>1. /\ DOMAIN r = 1..(Len(s) - 1) /\ Len(r) = Len(s) - 1 /\ Last(s) = s[Len(s)]
      /\ Len(s) \in Nat \ {0} /\ DOMAIN s = 1..Len(s) /\ \A n \in 1..(Len(s) - 1) : r[n] = s[n]
  BY FrontFacts
<1> HIDE DEF r
<1>2. ASSUME NEW n \in 1..(Len(s) - 1), r[n].kind = "extern" PROVE CallBelow(r, n, r[n].saved)
  <2>1. CallBelow(s, n, s[n].saved) /\ r[n] = s[n] /\ \A m \in 1..(n - 1) : r[m] = s[m]
    BY <1>1, <1>2 DEF ActiveIn
  <2> QED BY <2>1, CallBelowByBelow
<1>3. ASSUME Last(s).kind # "extern" PROVE CallBelow(r, Len(s), a)
  <2>1. CallBelow(s, Len(s), a)
    BY <1>1, <1>3 DEF ActiveIn, CallBelow
  <2> QED BY <1>1, <2>1, CallBelowByBelow
<1>4. ASSUME Last(s).kind = "extern" PROVE CallBelow(r, Len(s), Last(s).saved)
  <2>1. CallBelow(s, Len(s), Last(s).saved)
    BY <1>1, <1>4 DEF ActiveIn
  <2> QED BY <1>1, <2>1, CallBelowByBelow
<1>5. Len(r) + 1 = Len(s)
  BY <1>1
<1> QED BY <1>1, <1>2, <1>3, <1>4, <1>5 DEF ActiveIn, r

LEMMA ActivePush ==
  ASSUME ExternTypeOK, ActiveRight, NEW t \in Thread, NEW f \in Frame, Push(t, f), f.kind # "extern",
         UNCHANGED active
  PROVE  ActiveRight'
<1>1. ActiveIn(stack'[t], active[t])
  BY PushStack, ActiveAppend DEF ActiveRight
<1> QED BY <1>1, PushStack DEF ActiveRight

LEMMA ActivePop ==
  ASSUME ExternTypeOK, ActiveRight, NEW t \in Thread, Inner(t).kind \notin {"python", "extern"}, Pop(t),
         UNCHANGED active
  PROVE  ActiveRight'
<1>1. ActiveIn(stack'[t], active[t])
  BY InnerFrame, PopStack, ActiveFront DEF ActiveRight
<1> QED BY <1>1, PopStack DEF ActiveRight

LEMMA ActiveInnermost ==
  ASSUME ExternTypeOK, ActiveRight, NEW t \in Thread, Inner(t).kind \notin {"python", "extern"},
         NEW f \in Frame, f.kind # "extern", Innermost(t, f), UNCHANGED active
  PROVE  ActiveRight'
<1>1. ActiveIn(Front(stack[t]), active[t])
  BY InnerFrame, ActiveFront DEF ActiveRight
<1>2. ActiveIn(stack'[t], active[t])
  BY <1>1, InnermostStack, ActiveAppend
<1> QED BY <1>2, InnermostStack DEF ActiveRight

LEMMA ActiveOpens ==
  ASSUME ExternTypeOK, ActiveRight, NEW t \in Thread, NEW i \in Interp, Opens(t, i)
  PROVE  ActiveRight'
<1> DEFINE f == [NewFrame("extern", i) EXCEPT !.saved = active[t]]
<1>1. f \in Frame /\ f.kind = "extern" /\ f.of = i /\ f.saved = active[t]
  <2>1. NewFrame("extern", i) \in Frame /\ active[t] \in Interp \cup {Nowhere}
    BY NewFrameTyped DEF Bag, ExternTypeOK
  <2> QED BY <2>1 DEF Frame, NewFrame
<1>2. Push(t, f) /\ active' = [active EXCEPT ![t] = i] /\ active \in [Thread -> Interp \cup {Nowhere}]
  BY DEF Opens, ExternTypeOK
<1> HIDE DEF f
<1>3. ActiveIn(stack'[t], i)
  BY <1>1, <1>2, PushStack, ActiveAppend DEF ActiveRight
<1>4. active'[t] = i /\ \A u \in Thread \ {t} : active'[u] = active[u]
  BY <1>2
<1> QED BY <1>1, <1>2, <1>3, <1>4, PushStack DEF ActiveRight

LEMMA ActiveNext ==
  ASSUME ExternTypeOK, WindowInv, ActiveRight, [ExternNext]_externVars
  PROVE  ActiveRight'
<1>1. CASE RunProgram
  <2>1. PICK t \in Thread, i \in Interp : Push(t, NewFrame("run", i))
    BY <1>1 DEF RunProgram
  <2>2. NewFrame("run", i) \in Frame /\ NewFrame("run", i).kind = "run"
    BY NewFrameTyped DEF Bag, NewFrame
  <2> QED BY <1>1, <2>1, <2>2, ActivePush DEF RunProgram
<1>2. CASE EndRun
  <2>1. PICK t \in Thread : Inner(t).kind = "run" /\ (Pop(t) \/ Innermost(t, Closing(Inner(t).of)))
    BY <1>2 DEF EndRun
  <2>2. Inner(t).of \in Bag
    BY <2>1, InnerFrame DEF Frame
  <2> QED BY <1>2, <2>1, <2>2, ClosingTyped, ActivePop, ActiveInnermost DEF EndRun
<1>3. CASE HostCloses
  <2>1. PICK t \in Thread : Push(t, Closing(Host))
    BY <1>3 DEF HostCloses
  <2> QED BY <1>3, <2>1, ClosingTyped, ActivePush DEF HostCloses, Bag
<1>4. CASE CloseValue
  <2>1. PICK t \in Thread : /\ Inner(t).kind = "closing" /\ Inner(t).todo # <<>>
                            /\ Innermost(t, [Inner(t) EXCEPT !.todo = Tail(@)])
    BY <1>4 DEF CloseValue
  <2>2. Inner(t) \in Frame /\ Tail(Inner(t).todo) \in Seq(Nat)
    BY <2>1, InnerFrame DEF Frame
  <2>3. /\ [Inner(t) EXCEPT !.todo = Tail(@)] \in Frame
        /\ [Inner(t) EXCEPT !.todo = Tail(@)].kind = "closing"
    BY <2>1, <2>2 DEF Frame
  <2> QED BY <1>4, <2>1, <2>3, ActiveInnermost DEF CloseValue
<1>5. CASE AllClosed
  BY <1>5, ActivePop DEF AllClosed
<1>6. CASE CallExtern
  <2>1. PICK t \in Thread : Inner(t).kind \in {"run", "body"} /\ Opens(t, Inner(t).of)
    BY <1>6 DEF CallExtern, InAgl
  <2>2. Inner(t).of \in Interp
    BY <2>1, InnerPlaced DEF WindowInv, Placed, AglKind
  <2> QED BY <2>1, <2>2, ActiveOpens
<1>7. CASE ReturnExtern
  <2>1. PICK t \in Thread : /\ Inner(t).kind = "extern" /\ Pop(t)
                            /\ active' = [active EXCEPT ![t] = Inner(t).saved]
    BY <1>7 DEF ReturnExtern, Previous
  <2>2. ActiveIn(stack'[t], Inner(t).saved)
    BY <2>1, InnerFrame, PopStack, ActiveFront DEF ActiveRight
  <2>3. active'[t] = Inner(t).saved /\ \A u \in Thread \ {t} : active'[u] = active[u]
    BY <2>1 DEF ExternTypeOK
  <2> QED BY <2>1, <2>2, <2>3, PopStack DEF ActiveRight
<1>8. CASE Callback
  <2>1. PICK t \in Thread, i \in Interp : Opens(t, i) \/ (Push(t, NewFrame("body", i)) /\ UNCHANGED active)
    BY <1>8 DEF Callback
  <2>2. NewFrame("body", i) \in Frame /\ NewFrame("body", i).kind = "body"
    BY NewFrameTyped DEF Bag, NewFrame
  <2> QED BY <2>1, <2>2, ActivePush, ActiveOpens
<1>9. CASE ReturnCallback
  BY <1>9, ActivePop DEF ReturnCallback
<1>10. CASE Spawn
  <2>1. PICK t \in Thread, u \in Thread :
           /\ stack[u] = <<>> /\ UNCHANGED stack
           /\ \E c \in {Nowhere, active[t]} : active' = [active EXCEPT ![u] = c]
    BY <1>10 DEF Spawn
  <2>2. \A a : ActiveIn(<<>>, a)
    BY DEF ActiveIn, CallBelow
  <2>3. \A v \in Thread \ {u} : active'[v] = active[v]
    BY <2>1 DEF ExternTypeOK
  <2> QED BY <2>1, <2>2, <2>3 DEF ActiveRight
<1>11. CASE UseState
  <2>1. PICK t \in Thread, k \in Key :
           active[t] # Nowhere /\ Push(t, [NewFrame("factory", StateOf(active[t])) EXCEPT !.key = k])
    BY <1>11 DEF UseState
  <2>2. NewFrame("factory", StateOf(active[t])) \in Frame
    BY <2>1, NewFrameTyped DEF ExternTypeOK, StateOf, Bag
  <2>3. /\ [NewFrame("factory", StateOf(active[t])) EXCEPT !.key = k] \in Frame
        /\ [NewFrame("factory", StateOf(active[t])) EXCEPT !.key = k].kind = "factory"
    BY <2>2 DEF Frame, NewFrame
  <2> QED BY <1>11, <2>1, <2>3, ActivePush DEF UseState
<1>12. CASE Create
  BY <1>12, ActivePop DEF Create
<1>13. CASE UNCHANGED externVars
  BY <1>13 DEF externVars, ActiveRight
<1> QED BY <1>1, <1>2, <1>3, <1>4, <1>5, <1>6, <1>7, <1>8, <1>9, <1>10, <1>11, <1>12, <1>13 DEF ExternNext

-----------------------------------------------------------------------------
(* Once the host closed its state no interpreter that was lent it runs. *)

\* Which interpreters run, after a step that begins no run.
LEMMA HoldingShrinks ==
  ASSUME ExternTypeOK, WindowInv, ExternNext, ~RunProgram
  PROVE  Holding' \subseteq Holding
<1> USE DEF WindowInv
<1>1. CASE EndRun
  <2>1. PICK t \in Thread :
           /\ Inner(t).kind = "run"
           /\ IF Inner(t).of \in Lent THEN Pop(t) ELSE Innermost(t, Closing(Inner(t).of))
    BY <1>1 DEF EndRun
  <2>2. \A j \in Interp : Running(j)' => Running(j)
    <3>1. CASE Inner(t).of \in Lent
      BY <2>1, <3>1, OnStackPop DEF Running
    <3>2. CASE Inner(t).of \notin Lent
      <4>1. Inner(t).of \in Bag
        BY <2>1, InnerFrame DEF Frame
      <4>2. OnStack(NewFrame("run", Inner(t).of))
        BY <2>1, InnerOnStack
      <4> QED BY <2>1, <3>2, <4>1, <4>2, ClosingTyped, OnStackInnermost DEF Running, Homes
    <3> QED BY <3>1, <3>2
  <2> QED BY <2>2 DEF Holding
<1>2. CASE HostCloses
  BY <1>2, ClosingTyped, HoldingPush DEF HostCloses, Bag
<1>3. CASE CloseValue
  <2>1. PICK t \in Thread : /\ Inner(t).kind = "closing" /\ Inner(t).todo # <<>>
                            /\ Innermost(t, [Inner(t) EXCEPT !.todo = Tail(@)])
    BY <1>3 DEF CloseValue
  <2> DEFINE f == [Inner(t) EXCEPT !.todo = Tail(@)]
  <2>2. Inner(t) \in Frame /\ Tail(Inner(t).todo) \in Seq(Nat) /\ OnStack(NewFrame("closing", Inner(t).of))
    BY <2>1, InnerFrame, InnerOnStack DEF Frame
  <2>3. f \in Frame /\ f.kind = "closing" /\ f.of = Inner(t).of
    BY <2>1, <2>2 DEF Frame
  <2> HIDE DEF f
  <2>4. \A j \in Interp : Running(j)' => Running(j)
    BY <2>1, <2>2, <2>3, OnStackInnermost DEF Running, Homes, f
  <2> QED BY <2>4 DEF Holding
<1>4. CASE AllClosed
  BY <1>4, OnStackPop DEF AllClosed, Holding, Running
<1>5. CASE CallExtern \/ Callback
  <2>1. PICK t \in Thread, i \in Interp :
           Push(t, NewFrame("body", i)) \/ Push(t, [NewFrame("extern", i) EXCEPT !.saved = active[t]])
    <3>1. CASE CallExtern
      <4>1. PICK t \in Thread : Inner(t).kind \in {"run", "body"} /\ Opens(t, Inner(t).of)
        BY <3>1 DEF CallExtern, InAgl
      <4>2. Inner(t).of \in Interp
        BY <4>1, InnerPlaced DEF Placed, AglKind
      <4> QED BY <4>1, <4>2 DEF Opens
    <3>2. CASE Callback
      BY <3>2 DEF Callback, Opens
    <3> QED BY <1>5, <3>1, <3>2
  <2>2. NewFrame("body", i) \in Frame /\ NewFrame("extern", i) \in Frame /\ active[t] \in Interp \cup {Nowhere}
    BY NewFrameTyped DEF Bag, ExternTypeOK
  <2>3. /\ NewFrame("body", i).kind = "body"
        /\ [NewFrame("extern", i) EXCEPT !.saved = active[t]] \in Frame
        /\ [NewFrame("extern", i) EXCEPT !.saved = active[t]].kind = "extern"
    BY <2>2 DEF Frame, NewFrame
  <2> QED BY <2>1, <2>2, <2>3, HoldingPush DEF Homes
<1>6. CASE ReturnExtern \/ ReturnCallback \/ Create
  <2>1. PICK t \in Thread : Inner(t).kind \in {"extern", "body", "factory"} /\ Pop(t)
    BY <1>6 DEF ReturnExtern, ReturnCallback, Create
  <2> QED BY <2>1, HoldingPop DEF Homes
<1>7. CASE Spawn
  BY <1>7 DEF Spawn, Holding, Running, OnStack
<1>8. CASE UseState
  <2>1. PICK t \in Thread, k \in Key :
           active[t] # Nowhere /\ Push(t, [NewFrame("factory", StateOf(active[t])) EXCEPT !.key = k])
    BY <1>8 DEF UseState
  <2>2. NewFrame("factory", StateOf(active[t])) \in Frame
    BY <2>1, NewFrameTyped DEF ExternTypeOK, StateOf, Bag
  <2>3. /\ [NewFrame("factory", StateOf(active[t])) EXCEPT !.key = k] \in Frame
        /\ [NewFrame("factory", StateOf(active[t])) EXCEPT !.key = k].kind = "factory"
    BY <2>2 DEF Frame, NewFrame
  <2> QED BY <2>1, <2>3, HoldingPush DEF Homes
<1> QED BY <1>1, <1>2, <1>3, <1>4, <1>5, <1>6, <1>7, <1>8 DEF ExternNext

LEMMA OverNext ==
  ASSUME ExternTypeOK, WindowInv, OverAlone, [ExternNext]_externVars
  PROVE  OverAlone'
<1>1. Lent \subseteq Interp
  BY InterpAssumption
<1>2. CASE RunProgram
  <2>1. PICK t \in Thread, i \in Interp : /\ i \in Lent => ~over
                                          /\ Push(t, NewFrame("run", i)) /\ over' = over
    BY <1>2 DEF RunProgram
  <2>2. NewFrame("run", i) \in Frame /\ NewFrame("run", i).kind = "run" /\ NewFrame("run", i).of = i
    BY NewFrameTyped DEF Bag, NewFrame
  <2>3. \A j \in Lent : Running(j)' => Running(j) \/ j = i
    BY <1>1, <2>1, <2>2, OnStackPush DEF Running
  <2> QED BY <2>1, <2>3 DEF OverAlone
<1>3. CASE ExternNext /\ ~RunProgram
  <2>1. \A j \in Lent : Running(j)' => Running(j)
    BY <1>1, <1>3, HoldingShrinks DEF Holding
  <2>2. over' => over \/ \A j \in Lent : ~Running(j)
    BY <1>3 DEF ExternNext, RunProgram, EndRun, HostCloses, CloseValue, AllClosed, CallExtern, ReturnExtern,
                Callback, ReturnCallback, Spawn, UseState, Create, Opens
  <2> QED BY <2>1, <2>2 DEF OverAlone
<1>4. CASE UNCHANGED externVars
  BY <1>4 DEF externVars, OverAlone, Running, OnStack
<1> QED BY <1>2, <1>3, <1>4

-----------------------------------------------------------------------------
(* Factories that run, each for a key of its own. *)

\* The factories of stack', and what is below them, are those of stack.
FactoriesStay == \A u \in Thread : \A n \in DOMAIN stack'[u] :
    stack'[u][n].kind = "factory" => /\ n \in DOMAIN stack[u] /\ stack'[u][n] = stack[u][n]
                                     /\ \A m \in 1..(n - 1) : stack'[u][m] = stack[u][m]

LEMMA FactoriesKeep ==
  ASSUME ExternTypeOK, Factories, FactoriesStay,
         \A b \in Bag : bag'[b] = bag[b] \/ bag'[b] = <<>>
  PROVE  Factories'
<1> SUFFICES ASSUME NEW t \in Thread, NEW n \in DOMAIN stack'[t], stack'[t][n].kind = "factory"
             PROVE  LET f == stack'[t][n] IN
                    /\ \E m \in 1..(n - 1) : stack'[t][m].kind = "extern" /\ StateOf(stack'[t][m].of) = f.of
                    /\ \A e \in DOMAIN bag'[f.of] : bag'[f.of][e][1] # f.key
                    /\ \A u \in Thread : \A m \in DOMAIN stack'[u] :
                          stack'[u][m].kind = "factory" /\ stack'[u][m].of = f.of /\ stack'[u][m].key = f.key
                          => u = t /\ m = n
  BY DEF Factories, StateOf
<1>1. /\ n \in DOMAIN stack[t] /\ stack'[t][n] = stack[t][n]
      /\ \A m \in 1..(n - 1) : stack'[t][m] = stack[t][m]
  BY DEF FactoriesStay
<1>2. stack[t][n].of \in Bag
  <2>1. stack[t] \in Seq(Frame)
    BY DEF ExternTypeOK
  <2>2. stack[t][n] \in Frame
    BY <1>1, <2>1, ElementOfSeq
  <2> QED BY <2>2 DEF Frame
<1>3. \E m \in 1..(n - 1) : stack'[t][m].kind = "extern" /\ StateOf(stack'[t][m].of) = stack'[t][n].of
  BY <1>1 DEF Factories
<1>4. \A e \in DOMAIN bag'[stack[t][n].of] : bag'[stack[t][n].of][e][1] # stack[t][n].key
  <2>1. \A e \in DOMAIN bag[stack[t][n].of] : bag[stack[t][n].of][e][1] # stack[t][n].key
    <3>1. n \in DOMAIN stack[t] /\ stack[t][n].kind = "factory"
      BY <1>1
    <3> QED BY <3>1 DEF Factories
  <2>2. bag'[stack[t][n].of] \in {bag[stack[t][n].of], <<>>}
    BY <1>2
  <2> QED BY <2>1, <2>2
<1>5. ASSUME NEW u \in Thread, NEW m \in DOMAIN stack'[u], stack'[u][m].kind = "factory",
             stack'[u][m].of = stack[t][n].of, stack'[u][m].key = stack[t][n].key
      PROVE  u = t /\ m = n
  <2>1. m \in DOMAIN stack[u] /\ stack'[u][m] = stack[u][m]
    BY <1>5 DEF FactoriesStay
  <2> QED BY <1>1, <1>5, <2>1 DEF Factories
<1> QED BY <1>1, <1>3, <1>4, <1>5

LEMMA StayPush ==
  ASSUME ExternTypeOK, NEW t \in Thread, NEW f \in Frame, f.kind # "factory", Push(t, f)
  PROVE  FactoriesStay
BY PushedFrames DEF FactoriesStay

LEMMA StayPop ==
  ASSUME ExternTypeOK, NEW t \in Thread, Inner(t).kind # "python", Pop(t)
  PROVE  FactoriesStay
BY PoppedFrames DEF FactoriesStay

LEMMA StayInnermost ==
  ASSUME ExternTypeOK, NEW t \in Thread, Inner(t).kind # "python",
         NEW f \in Frame, f.kind # "factory", Innermost(t, f)
  PROVE  FactoriesStay
BY InnermostFrames DEF FactoriesStay

\* The interpreter of a factory runs, and its state is not closed.
LEMMA FactoryNotEnded ==
  ASSUME ExternTypeOK, WindowInv, OverAlone, Factories, NEW t \in Thread, NEW n \in DOMAIN stack[t],
         stack[t][n].kind = "factory"
  PROVE  ~Ended(stack[t][n].of)
<1> DEFINE b == stack[t][n].of
<1>1. stack[t] \in Seq(Frame) /\ NestedIn(stack[t])
  BY DEF ExternTypeOK, WindowInv, Nested
<1>2. PICK m \in 1..(n - 1) : stack[t][m].kind = "extern" /\ StateOf(stack[t][m].of) = b
  BY DEF Factories
<1>3. m \in DOMAIN stack[t] /\ Placed(stack[t], m, stack[t][m])
  BY <1>1 DEF NestedIn
<1> DEFINE i == stack[t][m].of
<1>4. i \in Interp /\ OnStack(NewFrame("run", i))
  <2>1. PICK r \in 1..(m - 1) : stack[t][r].kind = "run" /\ stack[t][r].of = i
    BY <1>2, <1>3 DEF Placed
  <2>2. r \in DOMAIN stack[t]
    BY <1>1, <1>3
  <2> QED BY <1>2, <1>3, <2>1, <2>2 DEF Placed, AglKind, OnStack, NewFrame
<1>5. i # Host /\ Host \notin Interp
  BY <1>4, InterpAssumption
<1>6. CASE i \in Lent
  BY <1>2, <1>4, <1>6 DEF StateOf, OverAlone, Running, Ended
<1>7. CASE i \notin Lent
  BY <1>2, <1>4, <1>5, <1>7 DEF StateOf, Ended
<1> QED BY <1>6, <1>7

LEMMA UseStateFactories ==
  ASSUME ExternTypeOK, ActiveRight, Factories, UseState, ~LooseState
  PROVE  Factories'
<1>1. PICK t \in Thread, k \in Key :
         /\ active[t] # Nowhere /\ InCall(t) /\ ~Making(StateOf(active[t]), k)
         /\ \A e \in DOMAIN bag[StateOf(active[t])] : bag[StateOf(active[t])][e][1] # k
         /\ Push(t, [NewFrame("factory", StateOf(active[t])) EXCEPT !.key = k])
  BY DEF UseState
<1> DEFINE b == StateOf(active[t])
           f == [NewFrame("factory", b) EXCEPT !.key = k]
           top == Len(stack[t]) + 1
<1>2. f \in Frame /\ f.kind = "factory" /\ f.of = b /\ f.key = k
  <2>1. NewFrame("factory", b) \in Frame
    BY <1>1, NewFrameTyped DEF ExternTypeOK, StateOf, Bag
  <2> QED BY <2>1 DEF Frame, NewFrame
<1>3. Push(t, f)
  BY <1>1
<1>4. \E m \in DOMAIN stack[t] : stack[t][m].kind = "extern" /\ stack[t][m].of = active[t]
  <2>1. DOMAIN stack[t] = 1..Len(stack[t]) /\ Len(stack[t]) \in Nat
    BY DEF ExternTypeOK
  <2>2. CallBelow(stack[t], Len(stack[t]) + 1, active[t])
    BY DEF ActiveRight, ActiveIn
  <2> QED BY <1>1, <2>1, <2>2 DEF InCall, CallBelow
<1>5. /\ Len(stack[t]) \in Nat /\ DOMAIN stack[t] = 1..Len(stack[t]) /\ DOMAIN stack'[t] = 1..top
      /\ stack'[t][top] = f /\ \A n \in DOMAIN stack[t] : stack'[t][n] = stack[t][n]
      /\ \A u \in Thread \ {t} : stack'[u] = stack[u]
  BY <1>2, <1>3, PushedFrames
<1>6. \A u \in Thread : \A n \in DOMAIN stack[u] :
         ~(stack[u][n].kind = "factory" /\ stack[u][n].of = b /\ stack[u][n].key = k)
  BY <1>1 DEF Making
<1>7. bag' = bag
  BY DEF UseState, state
<1>8. \A e \in DOMAIN bag[b] : bag[b][e][1] # k
  BY <1>1
<1> HIDE DEF f, top, b
<1> SUFFICES ASSUME NEW u \in Thread, NEW n \in DOMAIN stack'[u], stack'[u][n].kind = "factory"
             PROVE  /\ \E m \in 1..(n - 1) : stack'[u][m].kind = "extern" /\ StateOf(stack'[u][m].of) = stack'[u][n].of
                    /\ \A e \in DOMAIN bag[stack'[u][n].of] : bag[stack'[u][n].of][e][1] # stack'[u][n].key
                    /\ \A v \in Thread : \A m \in DOMAIN stack'[v] :
                          /\ stack'[v][m].kind = "factory" /\ stack'[v][m].of = stack'[u][n].of
                          /\ stack'[v][m].key = stack'[u][n].key
                          => v = u /\ m = n
  BY SMTT(30), <1>7 DEF Factories, StateOf
<1>9. CASE u = t /\ n = top
  <2>1. \E m \in 1..(n - 1) : stack'[u][m].kind = "extern" /\ StateOf(stack'[u][m].of) = stack'[u][n].of
    BY <1>2, <1>4, <1>5, <1>9 DEF top, b
  <2>2. \A e \in DOMAIN bag[stack'[u][n].of] : bag[stack'[u][n].of][e][1] # stack'[u][n].key
    BY <1>2, <1>5, <1>8, <1>9
  <2>3. ASSUME NEW v \in Thread, NEW m \in DOMAIN stack'[v], stack'[v][m].kind = "factory",
               stack'[v][m].of = b, stack'[v][m].key = k
        PROVE  v = u /\ m = n
    BY <1>5, <1>6, <1>9, <2>3 DEF top
  <2> QED BY <1>2, <1>5, <1>9, <2>1, <2>2, <2>3
<1>10. CASE u # t \/ n # top
  <2>1. /\ n \in DOMAIN stack[u] /\ stack'[u][n] = stack[u][n]
        /\ \A m \in 1..(n - 1) : stack'[u][m] = stack[u][m]
    BY <1>5, <1>10 DEF top
  <2>2. \E m \in 1..(n - 1) : stack'[u][m].kind = "extern" /\ StateOf(stack'[u][m].of) = stack'[u][n].of
    BY <2>1 DEF Factories
  <2>3. \A e \in DOMAIN bag[stack'[u][n].of] : bag[stack'[u][n].of][e][1] # stack'[u][n].key
    BY <2>1 DEF Factories
  <2>4. ASSUME NEW v \in Thread, NEW m \in DOMAIN stack'[v], stack'[v][m].kind = "factory",
               stack'[v][m].of = stack[u][n].of, stack'[v][m].key = stack[u][n].key
        PROVE  v = u /\ m = n
    <3>1. m \in DOMAIN stack[v] /\ stack'[v][m] = stack[v][m]
      BY <1>2, <1>5, <1>6, <2>1, <2>4 DEF top
    <3> QED BY <2>1, <2>4, <3>1 DEF Factories
  <2> QED BY <2>1, <2>2, <2>3, <2>4
<1> QED BY <1>9, <1>10

\* What Create does: a factory that comes back adds its value as the newest.
LEMMA EntryAppended ==
  ASSUME NEW entries \in Seq(Key \X Nat), NEW k, NEW v
  PROVE  \A e \in DOMAIN Append(entries, <<k, v>>) :
            \/ e \in DOMAIN entries /\ Append(entries, <<k, v>>)[e] = entries[e]
            \/ Append(entries, <<k, v>>)[e][1] = k
<1> DEFINE x == <<k, v>>
           S == (Key \X Nat) \union {x}
<1>1. x[1] = k
  OBVIOUS
<1>2. x \in S /\ entries \in Seq(S)
  OBVIOUS
<1> HIDE DEF x, S
<1>3. /\ DOMAIN Append(entries, x) = 1..(Len(entries) + 1) /\ Append(entries, x)[Len(entries) + 1] = x
      /\ \A n \in 1..Len(entries) : Append(entries, x)[n] = entries[n]
  BY <1>2, AppendFacts
<1>4. DOMAIN entries = 1..Len(entries) /\ Len(entries) \in Nat
  OBVIOUS
<1>5. \A e \in DOMAIN Append(entries, x) : \/ e \in DOMAIN entries /\ Append(entries, x)[e] = entries[e]
                                          \/ Append(entries, x)[e][1] = k
  BY <1>1, <1>3, <1>4
<1> QED BY <1>5 DEF x

LEMMA CreateAppends ==
  ASSUME ExternTypeOK, WindowInv, OverAlone, Factories, NEW t \in Thread, Inner(t).kind = "factory",
         made' = [made EXCEPT ![Inner(t).of] = @ + 1],
         bag' = [bag EXCEPT ![Inner(t).of] = Stored(@, Inner(t).key, made[Inner(t).of] + 1)]
  PROVE  LET b == Inner(t).of IN
         /\ b \in Bag /\ ~Ended(b) /\ made'[b] = made[b] + 1
         /\ bag'[b] = Append(bag[b], <<Inner(t).key, made[b] + 1>>)
         /\ \A c \in Bag \ {b} : bag'[c] = bag[c] /\ made'[c] = made[c]
<1> DEFINE b == Inner(t).of
<1>1. b \in Bag /\ Inner(t) = stack[t][Len(stack[t])] /\ Len(stack[t]) \in DOMAIN stack[t]
  BY InnerFrame DEF Frame
<1>2. ~Ended(b)
  BY <1>1, FactoryNotEnded
<1>3. \A e \in DOMAIN bag[b] : bag[b][e][1] # Inner(t).key
  <2>1. stack[t][Len(stack[t])].kind = "factory"
    BY <1>1
  <2>2. LET f == stack[t][Len(stack[t])] IN \A e \in DOMAIN bag[f.of] : bag[f.of][e][1] # f.key
    BY <1>1, <2>1 DEF Factories
  <2> QED BY <1>1, <2>2
<1>4. Stored(bag[b], Inner(t).key, made[b] + 1) = Append(bag[b], <<Inner(t).key, made[b] + 1>>)
  BY <1>3 DEF Stored
<1>5. bag \in [Bag -> Seq(Key \X Nat)] /\ made \in [Bag -> Nat]
  BY DEF ExternTypeOK
<1>6. bag'[b] = Stored(bag[b], Inner(t).key, made[b] + 1) /\ made'[b] = made[b] + 1
  BY <1>1, <1>5
<1>7. \A c \in Bag \ {b} : bag'[c] = bag[c] /\ made'[c] = made[c]
  BY <1>5
<1> QED BY <1>1, <1>2, <1>4, <1>6, <1>7

LEMMA CreateFactories ==
  ASSUME ExternTypeOK, WindowInv, OverAlone, Factories, Create
  PROVE  Factories'
<1>1. PICK t \in Thread :
         /\ Inner(t).kind = "factory" /\ Pop(t)
         /\ \/ /\ made' = [made EXCEPT ![Inner(t).of] = @ + 1]
               /\ bag' = [bag EXCEPT ![Inner(t).of] = Stored(@, Inner(t).key, made[Inner(t).of] + 1)]
            \/ UNCHANGED <<bag, made>>
  BY DEF Create
<1>2. FactoriesStay
  BY <1>1, StayPop
<1>3. CASE UNCHANGED bag
  BY <1>2, <1>3, FactoriesKeep
<1>4. CASE /\ made' = [made EXCEPT ![Inner(t).of] = @ + 1]
           /\ bag' = [bag EXCEPT ![Inner(t).of] = Stored(@, Inner(t).key, made[Inner(t).of] + 1)]
  <2> DEFINE b == Inner(t).of
             top == Len(stack[t])
  <2>1. /\ bag'[b] = Append(bag[b], <<Inner(t).key, made[b] + 1>>) /\ b \in Bag
        /\ \A c \in Bag \ {b} : bag'[c] = bag[c]
    BY <1>1, <1>4, CreateAppends
  <2>2. Inner(t) = stack[t][top] /\ top \in DOMAIN stack[t] /\ bag[b] \in Seq(Key \X Nat)
    BY <1>1, <2>1, InnerFrame DEF ExternTypeOK
  <2>3. DOMAIN stack'[t] = 1..(top - 1) /\ top \in Nat
    BY <1>1, PoppedFrames
  <2> HIDE DEF top
  <2> SUFFICES ASSUME NEW u \in Thread, NEW n \in DOMAIN stack'[u], stack'[u][n].kind = "factory"
               PROVE  /\ \E m \in 1..(n - 1) : /\ stack'[u][m].kind = "extern"
                                               /\ StateOf(stack'[u][m].of) = stack'[u][n].of
                      /\ \A e \in DOMAIN bag'[stack'[u][n].of] : bag'[stack'[u][n].of][e][1] # stack'[u][n].key
                      /\ \A v \in Thread : \A m \in DOMAIN stack'[v] :
                            /\ stack'[v][m].kind = "factory" /\ stack'[v][m].of = stack'[u][n].of
                            /\ stack'[v][m].key = stack'[u][n].key
                            => v = u /\ m = n
    BY DEF Factories, StateOf
  <2>4. /\ n \in DOMAIN stack[u] /\ stack'[u][n] = stack[u][n] /\ stack[u][n].kind = "factory"
        /\ \A m \in 1..(n - 1) : stack'[u][m] = stack[u][m]
    BY <1>2 DEF FactoriesStay
  <2>5. \E m \in 1..(n - 1) : stack'[u][m].kind = "extern" /\ StateOf(stack'[u][m].of) = stack'[u][n].of
    BY <2>4 DEF Factories
  <2>6. stack[u][n].of \in Bag /\ \A e \in DOMAIN bag[stack[u][n].of] : bag[stack[u][n].of][e][1] # stack[u][n].key
    <3>1. stack[u][n] \in Frame
      BY <2>4, ElementOfSeq DEF ExternTypeOK
    <3> QED BY <2>4, <3>1 DEF Factories, Frame
  <2>7. \A e \in DOMAIN bag'[stack[u][n].of] : bag'[stack[u][n].of][e][1] # stack[u][n].key
    <3>1. CASE stack[u][n].of # b
      BY <2>1, <2>6, <3>1
    <3>2. CASE stack[u][n].of = b
      <4>1. stack[u][n].key # Inner(t).key
        BY <1>1, <2>2, <2>3, <2>4, <3>2 DEF Factories
      <4>2. \A e \in DOMAIN bag'[b] : \/ e \in DOMAIN bag[b] /\ bag'[b][e] = bag[b][e]
                                     \/ bag'[b][e][1] = Inner(t).key
        <5> DEFINE new == Append(bag[b], <<Inner(t).key, made[b] + 1>>)
        <5>1. \A e \in DOMAIN new : (e \in DOMAIN bag[b] /\ new[e] = bag[b][e]) \/ new[e][1] = Inner(t).key
          BY <2>2, EntryAppended
        <5>2. bag'[b] = new
          BY <2>1
        <5> HIDE DEF new
        <5> QED BY <5>1, <5>2
      <4> QED BY <2>6, <3>2, <4>1, <4>2
    <3> QED BY <3>1, <3>2
  <2>8. ASSUME NEW v \in Thread, NEW m \in DOMAIN stack'[v], stack'[v][m].kind = "factory",
               stack'[v][m].of = stack[u][n].of, stack'[v][m].key = stack[u][n].key
        PROVE  v = u /\ m = n
    <3>1. m \in DOMAIN stack[v] /\ stack'[v][m] = stack[v][m]
      BY <1>2, <2>8 DEF FactoriesStay
    <3> QED BY <2>4, <2>8, <3>1 DEF Factories
  <2> QED BY <2>4, <2>5, <2>7, <2>8
<1> QED BY <1>1, <1>3, <1>4

-----------------------------------------------------------------------------
(* The values of a state, oldest last. *)

\* Nothing of b moves.
LEMMA OrderKeeps ==
  ASSUME NEW b, OldestLast(b), bag'[b] = bag[b], made'[b] = made[b], closed'[b] = closed[b],
         Ended(b)' <=> Ended(b), OnStack(NewFrame("closing", b)) => OnStack(NewFrame("closing", b))',
         \A u \in Thread : \A n \in DOMAIN stack'[u] :
            stack'[u][n].kind = "closing" /\ stack'[u][n].of = b => n \in DOMAIN stack[u] /\ stack'[u][n] = stack[u][n]
  PROVE  OldestLast(b)'
<1>1. ~Ended(b)' => /\ closed'[b] = <<>> /\ Len(bag'[b]) = made'[b]
                    /\ \A n \in DOMAIN bag'[b] : bag'[b][n][2] = n
  BY DEF OldestLast
<1>2. Ended(b)' => /\ \A n \in DOMAIN closed'[b] : closed'[b][n] = made'[b] + 1 - n
                   /\ ~OnStack(NewFrame("closing", b))' => Len(closed'[b]) = made'[b]
  BY DEF OldestLast
<1>3. ASSUME NEW u \in Thread, NEW n \in DOMAIN stack'[u],
             stack'[u][n].kind = "closing", stack'[u][n].of = b
      PROVE  /\ Ended(b)' /\ Len(closed'[b]) + Len(stack'[u][n].todo) = made'[b]
             /\ \A k \in DOMAIN stack'[u][n].todo : stack'[u][n].todo[k] = Len(stack'[u][n].todo) + 1 - k
  <2>1. n \in DOMAIN stack[u] /\ stack'[u][n] = stack[u][n]
    BY <1>3
  <2>2. stack[u][n].kind = "closing" /\ stack[u][n].of = b
    BY <1>3, <2>1
  <2>3. /\ Ended(b) /\ Len(closed[b]) + Len(stack[u][n].todo) = made[b]
        /\ \A k \in DOMAIN stack[u][n].todo : stack[u][n].todo[k] = Len(stack[u][n].todo) + 1 - k
    BY <2>1, <2>2 DEF OldestLast
  <2> QED BY <2>1, <2>3
<1> QED BY <1>1, <1>2, <1>3 DEF OldestLast

\* A frame that is not of a run comes or goes, and the state stays.
LEMMA OrderPush ==
  ASSUME ExternTypeOK, NEW b, OldestLast(b), NEW t \in Thread, NEW f \in Frame, f.kind \notin Homes, Push(t, f),
         UNCHANGED <<state, begun, over>>
  PROVE  OldestLast(b)'
<1>1. \A k \in Homes : OnStack(NewFrame(k, b))' <=> OnStack(NewFrame(k, b))
  BY OnStackPush
<1>2. Ended(b)' <=> Ended(b)
  BY <1>1 DEF Ended, Homes
<1>3. \A u \in Thread : \A n \in DOMAIN stack'[u] :
         stack'[u][n].kind = "closing" => n \in DOMAIN stack[u] /\ stack'[u][n] = stack[u][n]
  BY PushedFrames DEF Homes
<1> QED BY <1>1, <1>2, <1>3, OrderKeeps DEF state, Homes

LEMMA OrderPop ==
  ASSUME ExternTypeOK, OneHome, NEW b, OldestLast(b), NEW t \in Thread, Inner(t).kind # "python",
         Inner(t).kind \notin Homes \/ Inner(t).of # b, Pop(t), UNCHANGED <<begun, over>>,
         bag'[b] = bag[b], made'[b] = made[b], closed'[b] = closed[b]
  PROVE  OldestLast(b)'
<1>1. \A k \in Homes : OnStack(NewFrame(k, b))' <=> OnStack(NewFrame(k, b))
  BY OnStackPop
<1>2. Ended(b)' <=> Ended(b)
  BY <1>1 DEF Ended, Homes
<1>3. \A u \in Thread : \A n \in DOMAIN stack'[u] : n \in DOMAIN stack[u] /\ stack'[u][n] = stack[u][n]
  BY PoppedFrames
<1> QED BY <1>1, <1>2, <1>3, OrderKeeps DEF Homes

LEMMA OrderInnermost ==
  ASSUME ExternTypeOK, OneHome, NEW b, OldestLast(b), NEW t \in Thread, Inner(t).kind \in Homes,
         NEW f \in Frame, Innermost(t, f), f.kind = "closing", f.of = Inner(t).of, f.of # b,
         UNCHANGED <<begun, over>>, bag'[b] = bag[b], made'[b] = made[b], closed'[b] = closed[b]
  PROVE  OldestLast(b)'
<1>1. \A k \in Homes : OnStack(NewFrame(k, b))' <=> OnStack(NewFrame(k, b))
  BY OnStackInnermost DEF Homes
<1>2. Ended(b)' <=> Ended(b)
  BY <1>1 DEF Ended, Homes
<1>3. \A u \in Thread : \A n \in DOMAIN stack'[u] :
         stack'[u][n].of = b => n \in DOMAIN stack[u] /\ stack'[u][n] = stack[u][n]
  BY InnermostFrames DEF Homes
<1> QED BY <1>1, <1>2, <1>3, OrderKeeps DEF Homes

\* A bag whose closing begins holds the values in the order of creation.
LEMMA OrderBegins ==
  ASSUME ExternTypeOK, NEW b \in Bag, OldestLast(b), ~Ended(b), Cleared(b), Ended(b)',
         \E u \in Thread : \E n \in DOMAIN stack'[u] : stack'[u][n] = Closing(b),
         \A u \in Thread : \A n \in DOMAIN stack'[u] :
            stack'[u][n].kind = "closing" /\ stack'[u][n].of = b => stack'[u][n] = Closing(b)
  PROVE  OldestLast(b)'
<1> DEFINE todo == Closing(b).todo
<1>1. /\ closed'[b] = <<>> /\ made'[b] = made[b] /\ Len(bag[b]) = made[b]
      /\ \A n \in DOMAIN bag[b] : bag[b][n][2] = n
      /\ bag[b] \in Seq(Key \X Nat)
  BY DEF OldestLast, Cleared, ExternTypeOK
<1>2. InBag(b) \in Seq(Nat) /\ todo = Reverse(InBag(b))
  BY ClosingTyped
<1>3. Len(InBag(b)) = made[b] /\ \A n \in 1..made[b] : InBag(b)[n] = n
  BY <1>1 DEF InBag
<1>4. Len(todo) = made[b] /\ DOMAIN todo = 1..made[b] /\ \A k \in 1..made[b] : todo[k] = made[b] + 1 - k
  <2>1. made[b] \in Nat /\ todo = [k \in 1..made[b] |-> InBag(b)[(made[b] - k) + 1]]
    BY <1>2, <1>3 DEF Reverse, ExternTypeOK
  <2>2. \A k \in 1..made[b] : (made[b] - k) + 1 \in 1..made[b] /\ (made[b] - k) + 1 = made[b] + 1 - k
    BY <2>1
  <2>3. \A k \in 1..made[b] : todo[k] = made[b] + 1 - k
    BY <1>3, <2>1, <2>2
  <2>4. Len(todo) \in Nat /\ DOMAIN todo = 1..Len(todo)
    <3>1. todo \in Seq(Nat)
      BY ClosingTyped DEF Frame
    <3> QED BY <3>1
  <2>5. \A m, n \in Nat : 1..m = 1..n => m = n
    OBVIOUS
  <2>6. DOMAIN todo = 1..made[b]
    BY <2>1
  <2> QED BY <2>1, <2>3, <2>4, <2>5, <2>6
<1>5. OnStack(NewFrame("closing", b))'
  BY ClosingTyped DEF OnStack, NewFrame
<1>6. Len(closed'[b]) = 0 /\ DOMAIN closed'[b] = {} /\ made[b] \in Nat
  BY <1>1 DEF ExternTypeOK
<1> HIDE DEF todo
<1>7. ASSUME NEW u \in Thread, NEW n \in DOMAIN stack'[u],
             stack'[u][n].kind = "closing", stack'[u][n].of = b
      PROVE  /\ Len(closed'[b]) + Len(stack'[u][n].todo) = made'[b]
             /\ \A k \in DOMAIN stack'[u][n].todo : stack'[u][n].todo[k] = Len(stack'[u][n].todo) + 1 - k
  <2>1. stack'[u][n].todo = todo
    BY <1>7 DEF todo
  <2> QED BY <1>1, <1>4, <1>6, <2>1
<1> QED BY <1>5, <1>6, <1>7 DEF OldestLast

LEMMA OrderRun ==
  ASSUME ExternTypeOK, WindowInv, NEW b \in Bag, OldestLast(b), RunProgram
  PROVE  OldestLast(b)'
<1>1. PICK t \in Thread, i \in Interp \ begun :
         Push(t, NewFrame("run", i)) /\ begun' = begun \cup {i} /\ UNCHANGED <<state, over>>
  BY DEF RunProgram
<1> DEFINE f == NewFrame("run", i)
<1>2. f \in Frame /\ f.kind = "run" /\ f.of = i /\ i # Host
  BY NewFrameTyped, InterpAssumption DEF Bag, NewFrame
<1> HIDE DEF f
<1>3. \A k : OnStack(NewFrame(k, b))' <=> OnStack(NewFrame(k, b)) \/ (k = "run" /\ b = i)
  BY <1>1, <1>2, OnStackPush DEF f
<1>4. Ended(b)' <=> Ended(b)
  BY <1>1, <1>2, <1>3 DEF Ended
<1>5. \A u \in Thread : \A n \in DOMAIN stack'[u] :
         stack'[u][n].kind = "closing" => n \in DOMAIN stack[u] /\ stack'[u][n] = stack[u][n]
  BY <1>1, <1>2, PushedFrames DEF f
<1> QED BY <1>1, <1>3, <1>4, <1>5, OrderKeeps DEF state

LEMMA OrderEndRun ==
  ASSUME ExternTypeOK, WindowInv, NEW b \in Bag, OldestLast(b), EndRun
  PROVE  OldestLast(b)'
<1>1. PICK t \in Thread :
         /\ Inner(t).kind = "run"
         /\ IF Inner(t).of \in Lent THEN Pop(t) /\ UNCHANGED state
            ELSE Innermost(t, Closing(Inner(t).of)) /\ Cleared(Inner(t).of)
         /\ UNCHANGED <<begun, over>>
  BY DEF EndRun
<1> DEFINE i == Inner(t).of
<1>2. i \in Interp /\ i \in Bag /\ OnStack(NewFrame("run", i)) /\ i # Host /\ i \in begun
  <2>1. i \in Interp /\ OnStack(NewFrame("run", i))
    BY <1>1, InnerPlaced, InnerOnStack DEF WindowInv, Placed, AglKind
  <2> QED BY <2>1, HomesBegan, InterpAssumption DEF WindowInv, Running, Bag
<1>3. OneHome
  BY DEF WindowInv
<1>4. CASE i \in Lent
  <2>1. CASE b # i
    BY <1>1, <1>3, <1>4, <2>1, OrderPop DEF state
  <2>2. CASE b = i
    <3>1. ~Ended(b) /\ ~Ended(b)'
      BY <1>2, <1>4, <2>2 DEF Ended
    <3>2. OnStack(NewFrame("closing", b)) => OnStack(NewFrame("closing", b))'
      BY <1>1, <1>3, <1>4, OnStackPop
    <3>3. \A u \in Thread : \A n \in DOMAIN stack'[u] : n \in DOMAIN stack[u] /\ stack'[u][n] = stack[u][n]
      BY <1>1, <1>4, PoppedFrames
    <3> QED BY <1>1, <1>4, <3>1, <3>2, <3>3, OrderKeeps DEF state
  <2> QED BY <2>1, <2>2
<1>5. CASE i \notin Lent
  <2>1. Closing(i) \in Frame /\ Closing(i).kind = "closing" /\ Closing(i).of = i
    BY <1>2, ClosingTyped
  <2>2. Innermost(t, Closing(i)) /\ Cleared(i) /\ Inner(t).kind \in Homes
    BY <1>1, <1>5 DEF Homes
  <2>3. CASE b # i
    BY <1>1, <1>2, <1>3, <2>1, <2>2, <2>3, ClearedTyped, OrderInnermost DEF Cleared
  <2>4. CASE b = i
    <3>1. ~Ended(b) /\ Ended(b)'
      <4>1. ~OnStack(NewFrame("run", b))'
        BY <1>1, <1>3, <2>1, <2>2, <2>4, OnStackInnermost DEF Homes
      <4> QED BY <1>1, <1>2, <1>5, <2>4, <4>1 DEF Ended
    <3>2. OneHome'
      BY <1>1, <1>3, <2>1, <2>2, HomeInnermost
    <3>3. Len(stack[t]) \in DOMAIN stack'[t] /\ stack'[t][Len(stack[t])] = Closing(i)
      BY <1>1, <2>1, <2>2, InnermostFrames
    <3>4. ASSUME NEW u \in Thread, NEW n \in DOMAIN stack'[u],
                 stack'[u][n].kind = "closing", stack'[u][n].of = b
          PROVE  stack'[u][n] = Closing(b)
      <4>1. u = t /\ n = Len(stack[t])
        BY <2>1, <2>4, <3>2, <3>3, <3>4 DEF OneHome, Homes
      <4> QED BY <2>4, <3>3, <4>1
    <3> QED BY <1>2, <2>2, <2>4, <3>1, <3>3, <3>4, OrderBegins
  <2> QED BY <2>3, <2>4
<1> QED BY <1>4, <1>5

LEMMA OrderHostCloses ==
  ASSUME ExternTypeOK, WindowInv, NEW b \in Bag, OldestLast(b), HostCloses
  PROVE  OldestLast(b)'
<1>1. PICK t \in Thread : ~over /\ over' = TRUE /\ Push(t, Closing(Host)) /\ Cleared(Host) /\ begun' = begun
  BY DEF HostCloses
<1> DEFINE f == Closing(Host)
<1>2. f \in Frame /\ f.kind = "closing" /\ f.of = Host /\ Host \in Bag
  BY ClosingTyped DEF Bag
<1>3. CASE b # Host
  <2>1. \A k : OnStack(NewFrame(k, b))' <=> OnStack(NewFrame(k, b))
    BY <1>1, <1>2, <1>3, OnStackPush
  <2>2. Ended(b)' <=> Ended(b)
    BY <1>1, <1>3, <2>1 DEF Ended
  <2>3. \A u \in Thread : \A n \in DOMAIN stack'[u] :
           stack'[u][n].of = b => n \in DOMAIN stack[u] /\ stack'[u][n] = stack[u][n]
    BY <1>1, <1>2, <1>3, PushedFrames
  <2>4. bag'[b] = bag[b] /\ made'[b] = made[b] /\ closed'[b] = closed[b]
    BY <1>1, <1>2, <1>3, ClearedTyped DEF Cleared
  <2> QED BY <2>1, <2>2, <2>3, <2>4, OrderKeeps
<1>4. CASE b = Host
  <2>1. ~Ended(b) /\ Ended(b)'
    BY <1>1, <1>4 DEF Ended
  <2>2. OneHome'
    BY <1>1, <1>2, HomePushNew DEF WindowInv
  <2>3. Len(stack[t]) + 1 \in DOMAIN stack'[t] /\ stack'[t][Len(stack[t]) + 1] = f
    BY <1>1, <1>2, PushedFrames
  <2>4. ASSUME NEW u \in Thread, NEW n \in DOMAIN stack'[u],
               stack'[u][n].kind = "closing", stack'[u][n].of = b
        PROVE  stack'[u][n] = Closing(b)
    <3>1. u = t /\ n = Len(stack[t]) + 1
      BY <1>2, <1>4, <2>2, <2>3, <2>4 DEF OneHome, Homes
    <3> QED BY <1>4, <2>3, <3>1
  <2> QED BY <1>1, <1>2, <1>4, <2>1, <2>3, <2>4, OrderBegins
<1> QED BY <1>3, <1>4

LEMMA TailCounts ==
  ASSUME NEW todo \in Seq(Nat), todo # <<>>, \A k \in DOMAIN todo : todo[k] = Len(todo) + 1 - k
  PROVE  /\ Head(todo) = Len(todo) /\ Len(Tail(todo)) = Len(todo) - 1 /\ Len(todo) \in Nat \ {0}
         /\ \A k \in DOMAIN Tail(todo) : Tail(todo)[k] = Len(Tail(todo)) + 1 - k
<1>1. /\ Len(todo) \in Nat \ {0} /\ DOMAIN todo = 1..Len(todo) /\ Head(todo) = todo[1]
      /\ Len(Tail(todo)) = Len(todo) - 1 /\ DOMAIN Tail(todo) = 1..(Len(todo) - 1)
      /\ \A k \in 1..(Len(todo) - 1) : Tail(todo)[k] = todo[k + 1]
  BY HeadTailProperties
<1>2. ASSUME NEW k \in 1..(Len(todo) - 1) PROVE k + 1 \in DOMAIN todo /\ Len(todo) + 1 - (k + 1) = Len(todo) - 1 + 1 - k
  <2>1. \A n \in Nat \ {0} : \A m \in 1..(n - 1) : m + 1 \in 1..n /\ n + 1 - (m + 1) = n - 1 + 1 - m
    OBVIOUS
  <2> QED BY <1>1, <2>1
<1>3. 1 \in DOMAIN todo /\ Len(todo) + 1 - 1 = Len(todo)
  BY <1>1
<1>4. Head(todo) = Len(todo)
  BY <1>1, <1>3
<1>5. ASSUME NEW k \in DOMAIN Tail(todo) PROVE Tail(todo)[k] = Len(Tail(todo)) + 1 - k
  <2>1. k \in 1..(Len(todo) - 1)
    BY <1>1
  <2>2. Tail(todo)[k] = todo[k + 1] /\ todo[k + 1] = Len(todo) + 1 - (k + 1)
    BY <1>1, <1>2, <2>1
  <2> QED BY <1>1, <1>2, <2>1, <2>2
<1> QED BY <1>1, <1>4, <1>5

LEMMA OrderCloseValue ==
  ASSUME ExternTypeOK, WindowInv, NEW b \in Bag, OldestLast(b), CloseValue
  PROVE  OldestLast(b)'
<1>1. PICK t \in Thread :
         /\ Inner(t).kind = "closing" /\ Inner(t).todo # <<>>
         /\ closed' = [closed EXCEPT ![Inner(t).of] = Append(@, Head(Inner(t).todo))]
         /\ Innermost(t, [Inner(t) EXCEPT !.todo = Tail(@)])
         /\ UNCHANGED <<bag, made, begun, over>>
  BY DEF CloseValue
<1> DEFINE f == [Inner(t) EXCEPT !.todo = Tail(@)]
           todo == Inner(t).todo
           top == Len(stack[t])
<1>2. /\ Inner(t) \in Frame /\ todo \in Seq(Nat) /\ Inner(t).kind \in Homes /\ OneHome
      /\ Inner(t) = stack[t][top] /\ top \in DOMAIN stack[t]
  BY <1>1, InnerFrame DEF Frame, WindowInv, Homes
<1>3. Tail(todo) \in Seq(Nat)
  BY <1>1, <1>2
<1>4. f \in Frame /\ f.kind = "closing" /\ f.of = Inner(t).of /\ f.todo = Tail(todo)
  BY <1>1, <1>2, <1>3 DEF Frame
<1> HIDE DEF f
<1>5. CASE b # f.of
  <2>1. closed'[b] = closed[b]
    BY <1>1, <1>4, <1>5 DEF ExternTypeOK
  <2> QED BY <1>1, <1>2, <1>4, <1>5, <2>1, OrderInnermost DEF f
<1>6. CASE b = f.of
  <2>1. /\ Ended(b) /\ Len(closed[b]) + Len(todo) = made[b]
        /\ \A k \in DOMAIN todo : todo[k] = Len(todo) + 1 - k
        /\ \A n \in DOMAIN closed[b] : closed[b][n] = made[b] + 1 - n
    <3>1. stack[t][top].kind = "closing" /\ stack[t][top].of = b /\ stack[t][top].todo = todo
      BY <1>1, <1>2, <1>4, <1>6
    <3>2. /\ Ended(b) /\ Len(closed[b]) + Len(stack[t][top].todo) = made[b]
          /\ \A k \in DOMAIN stack[t][top].todo : stack[t][top].todo[k] = Len(stack[t][top].todo) + 1 - k
      BY <1>2, <3>1 DEF OldestLast
    <3>3. \A n \in DOMAIN closed[b] : closed[b][n] = made[b] + 1 - n
      BY <3>2 DEF OldestLast
    <3> QED BY <3>1, <3>2, <3>3
  <2>2. closed \in [Bag -> Seq(Nat)] /\ closed[b] \in Seq(Nat) /\ made[b] \in Nat
    BY DEF ExternTypeOK
  <2>3. /\ Head(todo) = Len(todo) /\ Len(Tail(todo)) = Len(todo) - 1 /\ Len(todo) \in Nat \ {0}
        /\ \A k \in DOMAIN Tail(todo) : Tail(todo)[k] = Len(Tail(todo)) + 1 - k
    BY <1>1, <1>2, <2>1, TailCounts
  <2>4. closed'[b] = Append(closed[b], Head(todo))
    BY <1>1, <1>4, <1>6, <2>2
  <2>5. Head(todo) = made[b] + 1 - (Len(closed[b]) + 1)
    <3>1. Len(closed[b]) \in Nat
      BY <2>2
    <3> HIDE DEF todo
    <3> QED BY <2>1, <2>2, <2>3, <3>1
  <2>6. /\ Len(closed'[b]) = Len(closed[b]) + 1
        /\ \A n \in DOMAIN closed'[b] : closed'[b][n] = made[b] + 1 - n
    <3>1. Head(todo) \in Nat
      BY <1>1, <1>2
    <3>2. /\ Len(closed'[b]) = Len(closed[b]) + 1 /\ DOMAIN closed'[b] = 1..(Len(closed[b]) + 1)
          /\ DOMAIN closed[b] = 1..Len(closed[b]) /\ Len(closed[b]) \in Nat
          /\ closed'[b][Len(closed[b]) + 1] = Head(todo)
          /\ \A n \in 1..Len(closed[b]) : closed'[b][n] = closed[b][n]
      BY <2>2, <2>4, <3>1, AppendFacts
    <3>3. \A n \in 1..Len(closed[b]) : closed'[b][n] = made[b] + 1 - n
      BY <2>1, <3>2
    <3>4. closed'[b][Len(closed[b]) + 1] = made[b] + 1 - (Len(closed[b]) + 1)
      BY <2>5, <3>2
    <3>5. \A n \in 1..(Len(closed[b]) + 1) : n \in 1..Len(closed[b]) \/ n = Len(closed[b]) + 1
      BY <3>2
    <3> QED BY <3>2, <3>3, <3>4, <3>5, Zenon
  <2>7. ~OnStack(NewFrame("run", b))' /\ OnStack(NewFrame("closing", b))'
    BY <1>1, <1>2, <1>4, <1>6, OnStackInnermost DEF Homes, f
  <2>8. Ended(b)'
    BY <1>1, <2>1, <2>7 DEF Ended
  <2>9. OneHome'
    BY <1>1, <1>2, <1>4, HomeInnermost DEF f
  <2>10. top \in DOMAIN stack'[t] /\ stack'[t][top] = f
    BY <1>1, <1>2, <1>4, InnermostFrames DEF f
  <2>11. ASSUME NEW u \in Thread, NEW n \in DOMAIN stack'[u],
                stack'[u][n].kind = "closing", stack'[u][n].of = b
         PROVE  stack'[u][n].todo = Tail(todo)
    <3>1. u = t /\ n = top
      BY <1>4, <1>6, <2>9, <2>10, <2>11 DEF OneHome, Homes
    <3> QED BY <1>4, <2>10, <3>1
  <2>12. /\ Len(closed'[b]) + Len(Tail(todo)) = made[b]
         /\ \A k \in DOMAIN Tail(todo) : Tail(todo)[k] = Len(Tail(todo)) + 1 - k
    <3>1. Len(closed[b]) \in Nat
      BY <2>2
    <3> HIDE DEF todo
    <3> QED BY <2>1, <2>2, <2>3, <2>6, <3>1
  <2>13. made' = made
    BY <1>1
  <2> HIDE DEF todo, top
  <2>14. ASSUME NEW u \in Thread, NEW n \in DOMAIN stack'[u],
                stack'[u][n].kind = "closing", stack'[u][n].of = b
         PROVE  /\ Len(closed'[b]) + Len(stack'[u][n].todo) = made'[b]
                /\ \A k \in DOMAIN stack'[u][n].todo : stack'[u][n].todo[k] = Len(stack'[u][n].todo) + 1 - k
    BY <2>11, <2>12, <2>13, <2>14
  <2> QED BY <2>6, <2>7, <2>8, <2>13, <2>14 DEF OldestLast
<1> QED BY <1>5, <1>6

LEMMA OrderAllClosed ==
  ASSUME ExternTypeOK, WindowInv, NEW b \in Bag, OldestLast(b), AllClosed
  PROVE  OldestLast(b)'
<1>1. PICK t \in Thread : /\ Inner(t).kind = "closing" /\ Inner(t).todo = <<>> /\ Pop(t)
                          /\ UNCHANGED <<state, begun, over>>
  BY DEF AllClosed
<1>2. /\ Inner(t) = stack[t][Len(stack[t])] /\ Len(stack[t]) \in DOMAIN stack[t] /\ OneHome
      /\ Inner(t).kind \in Homes
  BY <1>1, InnerFrame DEF WindowInv, Homes
<1>3. CASE b # Inner(t).of
  BY <1>1, <1>2, <1>3, OrderPop DEF state
<1>4. CASE b = Inner(t).of
  <2>1. /\ Ended(b) /\ Len(closed[b]) + Len(Inner(t).todo) = made[b]
        /\ \A n \in DOMAIN closed[b] : closed[b][n] = made[b] + 1 - n
    BY <1>1, <1>2, <1>4 DEF OldestLast
  <2>2. Len(closed[b]) = made[b]
    <3>1. Len(closed[b]) \in Nat /\ Len(<<>>) = 0
      BY DEF ExternTypeOK
    <3> QED BY <1>1, <2>1, <3>1
  <2>3. \A k \in Homes : ~OnStack(NewFrame(k, b))'
    BY <1>1, <1>2, <1>4, OnStackPop
  <2>4. Ended(b)'
    BY <1>1, <2>1, <2>3 DEF Ended, Homes
  <2>5. \A u \in Thread : \A n \in DOMAIN stack'[u] : ~(stack'[u][n].kind = "closing" /\ stack'[u][n].of = b)
    BY <2>3 DEF OnStack, NewFrame, Homes
  <2> QED BY <1>1, <2>1, <2>2, <2>4, <2>5 DEF OldestLast, state
<1> QED BY <1>3, <1>4

LEMMA OrderCreate ==
  ASSUME ExternTypeOK, WindowInv, OverAlone, Factories, NEW b \in Bag, OldestLast(b), Create
  PROVE  OldestLast(b)'
<1>1. PICK t \in Thread :
         /\ Inner(t).kind = "factory" /\ Pop(t) /\ UNCHANGED <<closed, begun, over>>
         /\ \/ /\ made' = [made EXCEPT ![Inner(t).of] = @ + 1]
               /\ bag' = [bag EXCEPT ![Inner(t).of] = Stored(@, Inner(t).key, made[Inner(t).of] + 1)]
            \/ UNCHANGED <<bag, made>>
  BY DEF Create
<1>2. OneHome
  BY DEF WindowInv
<1>3. CASE UNCHANGED <<bag, made>>
  BY <1>1, <1>2, <1>3, OrderPop DEF Homes
<1>4. CASE /\ made' = [made EXCEPT ![Inner(t).of] = @ + 1]
           /\ bag' = [bag EXCEPT ![Inner(t).of] = Stored(@, Inner(t).key, made[Inner(t).of] + 1)]
  <2>1. LET c == Inner(t).of IN
        /\ c \in Bag /\ ~Ended(c) /\ made'[c] = made[c] + 1
        /\ bag'[c] = Append(bag[c], <<Inner(t).key, made[c] + 1>>)
        /\ \A d \in Bag \ {c} : bag'[d] = bag[d] /\ made'[d] = made[d]
    BY <1>1, <1>4, CreateAppends
  <2>2. CASE b # Inner(t).of
    BY <1>1, <1>2, <2>1, <2>2, OrderPop DEF Homes
  <2>3. CASE b = Inner(t).of
    <3>1. /\ ~Ended(b) /\ made'[b] = made[b] + 1 /\ bag'[b] = Append(bag[b], <<Inner(t).key, made[b] + 1>>)
      BY <2>1, <2>3
    <3>2. /\ closed[b] = <<>> /\ Len(bag[b]) = made[b] /\ \A n \in DOMAIN bag[b] : bag[b][n][2] = n
          /\ bag[b] \in Seq(Key \X Nat) /\ made[b] \in Nat
      BY <3>1 DEF OldestLast, ExternTypeOK
    <3>3. <<Inner(t).key, made[b] + 1>> \in Key \X Nat
      <4>1. Placed(stack[t], Len(stack[t]), Inner(t))
        BY <1>1, InnerPlaced DEF WindowInv
      <4> QED BY <1>1, <3>2, <4>1 DEF Placed
    <3>4. /\ Len(bag'[b]) = made[b] + 1 /\ DOMAIN bag'[b] = 1..(made[b] + 1)
          /\ bag'[b][made[b] + 1] = <<Inner(t).key, made[b] + 1>>
          /\ \A n \in 1..made[b] : bag'[b][n] = bag[b][n]
      BY <3>1, <3>2, <3>3, AppendFacts
    <3>5. \A n \in DOMAIN bag'[b] : bag'[b][n][2] = n
      <4>1. DOMAIN bag[b] = 1..made[b]
        BY <3>2
      <4> QED BY <3>2, <3>4, <4>1
    <3>6. \A k \in Homes : OnStack(NewFrame(k, b))' <=> OnStack(NewFrame(k, b))
      BY <1>1, <1>2, OnStackPop DEF Homes
    <3>7. ~Ended(b)'
      BY <1>1, <3>1, <3>6 DEF Ended, Homes
    <3>8. \A u \in Thread : \A n \in DOMAIN stack'[u] : ~(stack'[u][n].kind = "closing" /\ stack'[u][n].of = b)
      <4>1. \A u \in Thread : \A n \in DOMAIN stack[u] : ~(stack[u][n].kind = "closing" /\ stack[u][n].of = b)
        BY <3>1 DEF OldestLast
      <4> QED BY <1>1, <4>1, PoppedFrames
    <3> QED BY <1>1, <3>1, <3>2, <3>4, <3>5, <3>7, <3>8 DEF OldestLast
  <2> QED BY <2>2, <2>3
<1> QED BY <1>1, <1>3, <1>4

-----------------------------------------------------------------------------
(* The state is closed. *)

\* A call or a body comes or goes.
LEMMA QuietKeeps ==
  ASSUME ExternTypeOK, WindowInv, Factories, \A b \in Bag : OldestLast(b),
         UNCHANGED <<state, begun, over>>,
         \E t \in Thread :
            \/ \E f \in Frame : f.kind \in {"extern", "body"} /\ Push(t, f)
            \/ Inner(t).kind \in {"extern", "body"} /\ Pop(t)
  PROVE  Factories' /\ \A b \in Bag : OldestLast(b)'
<1>1. FactoriesStay
  BY StayPush, StayPop
<1>2. Factories'
  BY <1>1, FactoriesKeep DEF state
<1>3. ASSUME NEW b \in Bag PROVE OldestLast(b)'
  BY OrderPush, OrderPop DEF Homes, WindowInv, state
<1> QED BY <1>2, <1>3

LEMMA StateNext ==
  ASSUME ExternTypeOK, WindowInv, StateInv, ~LooseState, [ExternNext]_externVars
  PROVE  StateInv'
<1> USE DEF StateInv
<1>1. ActiveRight' /\ OverAlone'
  BY ActiveNext, OverNext
<1>2. CASE RunProgram
  <2>1. PICK t \in Thread, i \in Interp : Push(t, NewFrame("run", i)) /\ UNCHANGED state
    BY <1>2 DEF RunProgram
  <2>2. NewFrame("run", i) \in Frame /\ NewFrame("run", i).kind = "run"
    BY NewFrameTyped DEF Bag, NewFrame
  <2>3. Factories'
    BY <2>1, <2>2, StayPush, FactoriesKeep DEF state
  <2> QED BY <1>1, <1>2, <2>3, OrderRun
<1>3. CASE EndRun
  <2>1. PICK t \in Thread :
           /\ Inner(t).kind = "run"
           /\ IF Inner(t).of \in Lent THEN Pop(t) /\ UNCHANGED state
              ELSE Innermost(t, Closing(Inner(t).of)) /\ Cleared(Inner(t).of)
    BY <1>3 DEF EndRun
  <2>2. Inner(t).of \in Bag
    BY <2>1, InnerFrame DEF Frame
  <2>3. FactoriesStay
    BY <2>1, <2>2, ClosingTyped, StayPop, StayInnermost
  <2>4. \A b \in Bag : bag'[b] = bag[b] \/ bag'[b] = <<>>
    BY <2>1, <2>2, ClearedTyped DEF state
  <2> QED BY <1>1, <1>3, <2>3, <2>4, FactoriesKeep, OrderEndRun
<1>4. CASE HostCloses
  <2>1. PICK t \in Thread : Push(t, Closing(Host)) /\ Cleared(Host)
    BY <1>4 DEF HostCloses
  <2>2. Host \in Bag
    BY DEF Bag
  <2>3. FactoriesStay
    BY <2>1, <2>2, ClosingTyped, StayPush
  <2>4. \A b \in Bag : bag'[b] = bag[b] \/ bag'[b] = <<>>
    BY <2>1, <2>2, ClearedTyped
  <2> QED BY <1>1, <1>4, <2>3, <2>4, FactoriesKeep, OrderHostCloses
<1>5. CASE CloseValue
  <2>1. PICK t \in Thread : /\ Inner(t).kind = "closing" /\ Inner(t).todo # <<>> /\ bag' = bag
                            /\ Innermost(t, [Inner(t) EXCEPT !.todo = Tail(@)])
    BY <1>5 DEF CloseValue
  <2>2. Inner(t) \in Frame /\ Tail(Inner(t).todo) \in Seq(Nat)
    BY <2>1, InnerFrame DEF Frame
  <2>3. /\ [Inner(t) EXCEPT !.todo = Tail(@)] \in Frame
        /\ [Inner(t) EXCEPT !.todo = Tail(@)].kind = "closing"
    BY <2>1, <2>2 DEF Frame
  <2> QED BY <1>1, <1>5, <2>1, <2>3, StayInnermost, FactoriesKeep, OrderCloseValue
<1>6. CASE AllClosed
  <2>1. Factories'
    BY <1>6, StayPop, FactoriesKeep DEF AllClosed, state
  <2> QED BY <1>1, <1>6, <2>1, OrderAllClosed
<1>7. CASE CallExtern \/ Callback
  <2>1. PICK t \in Thread, i \in Interp :
           /\ Push(t, NewFrame("body", i)) \/ Push(t, [NewFrame("extern", i) EXCEPT !.saved = active[t]])
           /\ UNCHANGED <<state, begun, over>>
    <3>1. CASE CallExtern
      <4>1. PICK t \in Thread : Inner(t).kind \in {"run", "body"} /\ Opens(t, Inner(t).of)
        BY <3>1 DEF CallExtern, InAgl
      <4>2. Inner(t).of \in Interp
        BY <4>1, InnerPlaced DEF WindowInv, Placed, AglKind
      <4> QED BY <4>1, <4>2 DEF Opens
    <3>2. CASE Callback
      BY <3>2 DEF Callback, Opens
    <3> QED BY <1>7, <3>1, <3>2
  <2>2. NewFrame("body", i) \in Frame /\ NewFrame("extern", i) \in Frame /\ active[t] \in Interp \cup {Nowhere}
    BY NewFrameTyped DEF Bag, ExternTypeOK
  <2>3. /\ NewFrame("body", i).kind = "body"
        /\ [NewFrame("extern", i) EXCEPT !.saved = active[t]] \in Frame
        /\ [NewFrame("extern", i) EXCEPT !.saved = active[t]].kind = "extern"
    BY <2>2 DEF Frame, NewFrame
  <2> QED BY <1>1, <2>1, <2>2, <2>3, QuietKeeps
<1>8. CASE ReturnExtern \/ ReturnCallback
  <2>1. PICK t \in Thread : /\ Inner(t).kind \in {"extern", "body"} /\ Pop(t)
                            /\ UNCHANGED <<state, begun, over>>
    BY <1>8 DEF ReturnExtern, ReturnCallback
  <2> QED BY <1>1, <2>1, QuietKeeps
<1>9. CASE UNCHANGED <<stack, state, begun, over>>
  <2>1. FactoriesStay /\ Factories'
    BY <1>9, FactoriesKeep DEF FactoriesStay, state
  <2>2. ASSUME NEW b \in Bag PROVE OldestLast(b)'
    <3>1. \A k \in Homes : OnStack(NewFrame(k, b))' <=> OnStack(NewFrame(k, b))
      BY <1>9 DEF OnStack
    <3>2. Ended(b)' <=> Ended(b)
      BY <1>9, <3>1 DEF Ended, Homes
    <3> QED BY <1>9, <3>1, <3>2, OrderKeeps DEF state, Homes
  <2> QED BY <1>1, <2>1, <2>2
<1>10. CASE UseState
  <2>1. PICK t \in Thread, k \in Key :
           /\ active[t] # Nowhere /\ UNCHANGED <<state, begun, over>>
           /\ Push(t, [NewFrame("factory", StateOf(active[t])) EXCEPT !.key = k])
    BY <1>10 DEF UseState
  <2>2. NewFrame("factory", StateOf(active[t])) \in Frame
    BY <2>1, NewFrameTyped DEF ExternTypeOK, StateOf, Bag
  <2>3. /\ [NewFrame("factory", StateOf(active[t])) EXCEPT !.key = k] \in Frame
        /\ [NewFrame("factory", StateOf(active[t])) EXCEPT !.key = k].kind = "factory"
    BY <2>2 DEF Frame, NewFrame
  <2> QED BY <1>1, <1>10, <2>1, <2>3, UseStateFactories, OrderPush DEF Homes
<1>11. CASE Create
  BY <1>1, <1>11, CreateFactories, OrderCreate
<1> QED BY <1>2, <1>3, <1>4, <1>5, <1>6, <1>7, <1>8, <1>9, <1>10, <1>11
        DEF ExternNext, externVars, Spawn

LEMMA StateInit ==
  ASSUME ExternInit
  PROVE  StateInv
<1>1. ActiveRight
  BY DEF ExternInit, ActiveRight, ActiveIn, CallBelow
<1>2. OverAlone /\ Factories
  BY DEF ExternInit, OverAlone, Factories
<1>3. ASSUME NEW b \in Bag PROVE OldestLast(b)
  <2>1. ~Ended(b) /\ closed[b] = <<>> /\ bag[b] = <<>> /\ made[b] = 0
    BY DEF ExternInit, Ended
  <2> QED BY <2>1 DEF OldestLast, ExternInit
<1> QED BY <1>1, <1>2, <1>3 DEF StateInv

\* ExternRuntimeState.close: where an interpreter's run, or the host's session, ends,
\* each value made in its state was closed, once, and before the values made earlier,
\* if state is used in extern calls alone, and no factory asks for the key it makes.
THEOREM ClosedWhereItEnds == ~LooseState /\ ExternSpec => []StateClosed
<1> SUFFICES ASSUME ~LooseState PROVE ExternSpec => []StateClosed
  OBVIOUS
<1>1. ASSUME ExternTypeOK, WindowInv, StateInv PROVE StateClosed
  <2> SUFFICES ASSUME NEW b \in Bag, Finished(b)
               PROVE  closed[b] = [n \in 1..made[b] |-> made[b] + 1 - n]
    BY DEF StateClosed
  <2>1. Ended(b) /\ ~OnStack(NewFrame("closing", b))
    BY InterpAssumption DEF Finished, Ended, Running, Bag
  <2>2. Len(closed[b]) = made[b] /\ \A n \in DOMAIN closed[b] : closed[b][n] = made[b] + 1 - n
    BY <1>1, <2>1 DEF StateInv, OldestLast
  <2>3. closed[b] \in Seq(Nat)
    BY <1>1 DEF ExternTypeOK
  <2>4. DOMAIN closed[b] = 1..made[b] /\ closed[b] = [n \in DOMAIN closed[b] |-> closed[b][n]]
    BY <2>2, <2>3
  <2> QED BY <2>2, <2>4
<1>2. ExternTypeOK /\ WindowInv /\ StateInv /\ [ExternNext]_externVars => StateInv'
  BY StateNext
<1>3. ExternInit => StateInv
  BY StateInit
<1>4. ExternTypeOK /\ WindowInv /\ StateInv => StateClosed
  BY <1>1
<1> QED BY <1>2, <1>3, <1>4, WindowAlways, PTL DEF ExternSpec
=============================================================================
