--------------------------- MODULE CommandsProofs ---------------------------
(***************************************************************************)
(* What is proved about the execution of commands, for any commands, hooks *)
(* and words and lines of any length: first what is open and on the stack, *)
(* then what the loops over words and arguments compute, and from both     *)
(* together which command runs, with which arguments, between which hooks. *)
(***************************************************************************)
EXTENDS Commands, SequenceTheorems, FiniteSetTheorems, WellFoundedInduction, TLAPS

-----------------------------------------------------------------------------
(***************************************************************************)
(* Loops.  A loop of the code is a recursive function on the number of     *)
(* rounds made.  Its values are found by the smallest counterexample: that *)
(* there is such a function, and what each round keeps.                    *)
(***************************************************************************)

\* A set of numbers has a smallest one.
LEMMA SmallestNumber ==
    ASSUME NEW S \in SUBSET Nat, S # {}
    PROVE  Min(S) \in S /\ \A n \in S : Min(S) <= n
<1>1. IsWellFoundedOn(OpToRel(<, Nat), Nat)
  BY NatLessThanWellFounded
<1>2. PICK m \in S : \A n \in S : ~ (<<n, m>> \in OpToRel(<, Nat))
  BY <1>1, WFMin
<1>3. \A n \in S : ~ (n < m)
  BY <1>2 DEF OpToRel
<1>4. \A n \in S : m <= n
  BY <1>3
<1> QED
  BY <1>2, <1>4 DEF Min

\* One with a bound has a largest one.
LEMMA LargestNumber ==
    ASSUME NEW N \in Nat, NEW S \in SUBSET (0 .. N), S # {}
    PROVE  Max(S) \in S /\ \A n \in S : n <= Max(S)
<1> DEFINE T == {N - n : n \in S}
<1>1. T \in SUBSET Nat /\ T # {}
  <2>1. ASSUME NEW n \in S PROVE N - n \in Nat
    <3>1. n \in 0 .. N
      OBVIOUS
    <3> QED
      BY <3>1
  <2> QED
    BY <2>1
<1>2. Min(T) \in T /\ \A n \in T : Min(T) <= n
  <2> HIDE DEF T
  <2> QED
    BY <1>1, SmallestNumber
<1>3. PICK m \in S : Min(T) = N - m
  BY <1>2
<1>4. ASSUME NEW n \in S PROVE m >= n
  <2>1. N - n \in T
    OBVIOUS
  <2>2. N - m <= N - n
    BY <1>2, <1>3, <2>1
  <2> QED
    BY <2>2
<1> QED
  BY <1>4 DEF Max

\* What holds before the first round, and after each if it did before, holds throughout.
LEMMA RoundAfterRound ==
    ASSUME NEW N \in Nat, NEW P, 0 \in P, \A n \in 1 .. N : n - 1 \in P => n \in P
    PROVE  \A n \in 0 .. N : n \in P
<1> DEFINE Bad == {n \in 0 .. N : n \notin P}
<1>1. SUFFICES ASSUME Bad # {} PROVE FALSE
  OBVIOUS
<1>2. Bad \in SUBSET Nat
  OBVIOUS
<1>3. Min(Bad) \in Bad /\ \A n \in Bad : Min(Bad) <= n
  <2> HIDE DEF Bad
  <2> QED
    BY <1>1, <1>2, SmallestNumber
<1>4. PICK m \in 0 .. N : m \notin P /\ \A n \in Bad : m <= n
  BY <1>3
<1>5. m \in 1 .. N /\ m - 1 \in 0 .. N
  BY <1>4
<1>6. m - 1 \notin Bad
  BY <1>4, <1>5
<1>7. m - 1 \in P
  BY <1>5, <1>6
<1> QED
  BY <1>4, <1>5, <1>7

\* A loop of N rounds on the states S: where it begins and what each round does.
LoopOn(N, S, base, step) == N \in Nat /\ base \in S /\ step \in [1 .. N -> [S -> S]]

\* There is the function of its states.
LEMMA LoopExists ==
    ASSUME NEW N, NEW S, NEW base, NEW step, LoopOn(N, S, base, step)
    PROVE  \E f \in [0 .. N -> S] : f[0] = base /\ \A n \in 1 .. N : f[n] = step[n][f[n - 1]]
<1> USE DEF LoopOn
<1> DEFINE Loop(n, f) == f \in [0 .. n -> S] /\ f[0] = base /\ \A i \in 1 .. n : f[i] = step[i][f[i - 1]]
           P == {n \in 0 .. N : \E f : Loop(n, f)}
<1>1. 0 \in P
  <2>1. Loop(0, [i \in 0 .. 0 |-> base])
    OBVIOUS
  <2> HIDE DEF Loop
  <2> QED
    BY <2>1
<1>2. ASSUME NEW n \in 1 .. N, n - 1 \in P PROVE n \in P
  <2>1. PICK f : Loop(n - 1, f)
    BY <1>2
  <2> DEFINE g == [i \in 0 .. n |-> IF i = n THEN step[n][f[n - 1]] ELSE f[i]]
  <2>2. f[n - 1] \in S /\ step[n][f[n - 1]] \in S
    BY <2>1
  <2>3. g \in [0 .. n -> S]
    BY <2>1, <2>2
  <2>4. g[0] = base
    BY <2>1
  <2>5. ASSUME NEW i \in 1 .. n PROVE g[i] = step[i][g[i - 1]]
    <3>1. g[i - 1] = f[i - 1]
      OBVIOUS
    <3>2. CASE i = n
      BY <3>1, <3>2
    <3>3. CASE i # n
      <4>1. i \in 1 .. n - 1
        BY <3>3
      <4> QED
        BY <2>1, <3>1, <4>1
    <3> QED
      BY <3>2, <3>3
  <2>6. Loop(n, g)
    BY <2>3, <2>4, <2>5
  <2> HIDE DEF Loop, g
  <2> QED
    BY <2>6
<1>3. N \in P
  <2> HIDE DEF P
  <2>1. \A n \in 0 .. N : n \in P
    BY <1>1, <1>2, RoundAfterRound
  <2> QED
    BY <2>1
<1>4. PICK f : Loop(N, f)
  BY <1>3
<1> QED
  BY <1>4

-----------------------------------------------------------------------------
(***************************************************************************)
(* The commands.  A command executes one other at most, so the frames are  *)
(* opened one below the other and then left one after the other: how many  *)
(* commands are begun, opened and closed follows from how many frames are  *)
(* open and where the innermost is.                                        *)
(***************************************************************************)
IsSequence(s) == s \in Seq(Range(s))

FrameIs(f) ==
    /\ f = [name |-> f.name, args |-> f.args, at |-> f.at, hook |-> f.hook, index |-> f.index]
    /\ f.at \in {"try", "start", "tracked", "before", "called", "posted", "after"}

\* Of the open frames the innermost one alone is not in its execute.
FramesShape ==
    /\ IsSequence(frames) /\ IsSequence(commands) /\ IsSequence(opened) /\ IsSequence(closed)
    /\ status \in {"waits", "runs", "done", "exit"} /\ (status = "runs" => frames # <<>>)
    /\ \A i \in 1 .. Len(frames) : FrameIs(frames[i]) /\ (i < Len(frames) => frames[i].at = "called")

\* What is closed is the end of what is opened.
ClosedIsOpened ==
    /\ Len(closed) <= Len(opened)
    /\ \A i \in 1 .. Len(closed) : closed[i] = opened[Len(opened) + 1 - i]

\* How many commands are begun, opened and closed when the innermost frame is where it is.
Counted ==
    LET n == Len(frames)
        began == IF Top.at \in {"try", "start"} THEN n - 1 ELSE n
    IN  /\ Len(commands) = began
        /\ \A i \in 1 .. began : commands[i] = [name |-> frames[i].name, args |-> frames[i].args]
        /\ Top.at \in {"try", "start", "tracked"} => Len(opened) = n - 1 /\ Len(closed) = 0
        /\ Top.at = "before" => Len(opened) = n /\ Len(closed) = 0
        /\ Top.at \in {"called", "posted"} => Len(opened) >= n /\ Len(closed) = Len(opened) - n
        /\ Top.at = "after" => Len(opened) >= n /\ Len(closed) = Len(opened) - n + 1
        /\ \A i \in 1 .. n : i <= Len(opened) => opened[i] = frames[i].hook

CommandsIInv ==
    /\ FramesShape /\ ClosedIsOpened
    /\ status = "runs" => Counted
    /\ status \in {"waits", "done"} => Len(commands) = 0 /\ Len(closed) = Len(opened)
    /\ status = "waits" => Len(frames) = 0 /\ Len(opened) = 0

LEMMA OfItsRange ==
    ASSUME NEW S, NEW s \in Seq(S)
    PROVE  IsSequence(s) /\ Len(s) \in Nat /\ DOMAIN s = 1 .. Len(s)
<1>1. s \in [1 .. Len(s) -> S] /\ Len(s) \in Nat /\ DOMAIN s = 1 .. Len(s)
  BY LenProperties
<1>2. s \in [1 .. Len(s) -> Range(s)]
  BY <1>1 DEF Range
<1> QED
  BY <1>1, <1>2 DEF IsSequence

LEMMA SequenceIs ==
    ASSUME NEW s, IsSequence(s)
    PROVE  Len(s) \in Nat /\ DOMAIN s = 1 .. Len(s) /\ (s = <<>> <=> Len(s) = 0)
<1>1. s \in Seq(Range(s))
  BY DEF IsSequence
<1> QED
  BY <1>1, EmptySeq, LenProperties

LEMMA EmptySequence == IsSequence(<<>>) /\ Len(<<>>) = 0
<1>1. <<>> \in Seq({})
  OBVIOUS
<1> QED
  BY <1>1, OfItsRange

LEMMA AppendedSequence ==
    ASSUME NEW s, IsSequence(s), NEW x
    PROVE  /\ IsSequence(Append(s, x)) /\ Len(Append(s, x)) = Len(s) + 1
           /\ \A i \in 1 .. Len(s) : Append(s, x)[i] = s[i]
           /\ Append(s, x)[Len(s) + 1] = x
<1> DEFINE S == Range(s) \cup {x}
<1>1. s \in Seq(S)
  <2>1. s \in Seq(Range(s)) /\ Range(s) \subseteq S
    BY DEF IsSequence
  <2>2. s \in [1 .. Len(s) -> Range(s)] /\ Len(s) \in Nat
    BY <2>1, LenProperties
  <2>3. s \in [1 .. Len(s) -> S]
    BY <2>1, <2>2
  <2> HIDE DEF S
  <2> QED
    BY <2>2, <2>3
<1>2. x \in S
  OBVIOUS
<1> HIDE DEF S
<1>3. /\ Append(s, x) \in Seq(S) /\ Len(Append(s, x)) = Len(s) + 1
      /\ \A i \in 1 .. Len(s) : Append(s, x)[i] = s[i]
      /\ Append(s, x)[Len(s) + 1] = x
  BY <1>1, <1>2, AppendProperties
<1>4. IsSequence(Append(s, x))
  BY <1>3, OfItsRange
<1> QED
  BY <1>3, <1>4

LEMMA FrontOfSequence ==
    ASSUME NEW s, IsSequence(s), s # <<>>
    PROVE  /\ IsSequence(Front(s)) /\ Len(Front(s)) = Len(s) - 1
           /\ \A i \in 1 .. Len(s) - 1 : Front(s)[i] = s[i]
<1>1. s \in Seq(Range(s)) /\ Len(s) \in Nat /\ Len(s) # 0
  BY SequenceIs DEF IsSequence
<1>2. 1 \in 1 .. Len(s) + 1 /\ Len(s) - 1 \in 0 .. Len(s)
  BY <1>1
<1> DEFINE t == SubSeq(s, 1, Len(s) - 1)
<1>3. t \in Seq(Range(s)) /\ Len(t) = Len(s) - 1 /\ \A i \in 1 .. Len(s) - 1 : t[i] = s[i]
  <2>1. /\ t \in Seq(Range(s)) /\ Len(t) = IF 1 <= Len(s) - 1 THEN Len(s) - 1 - 1 + 1 ELSE 0
        /\ \A i \in 1 .. Len(s) - 1 - 1 + 1 : t[i] = s[1 + i - 1]
    BY <1>1, <1>2, SubSeqProperties
  <2> HIDE DEF t
  <2>2. Len(t) = Len(s) - 1
    <3> DEFINE n == Len(s)
               m == Len(t)
    <3>1. m = IF 1 <= n - 1 THEN n - 1 - 1 + 1 ELSE 0
      BY <2>1
    <3>2. n \in Nat /\ n # 0
      BY <1>1
    <3> HIDE DEF n, m
    <3>3. m = n - 1
      BY ONLY <3>1, <3>2
    <3> QED
      BY <3>3 DEF m, n
  <2>3. ASSUME NEW i \in 1 .. Len(s) - 1 PROVE t[i] = s[i]
    <3>1. i \in 1 .. Len(s) - 1 - 1 + 1 /\ 1 + i - 1 = i
      BY <1>1
    <3>2. t[i] = s[1 + i - 1]
      BY ONLY <2>1, <3>1
    <3> QED
      BY <3>1, <3>2
  <2> QED
    BY <2>1, <2>2, <2>3
<1>4. Front(s) = t
  BY DEF Front
<1> HIDE DEF t
<1> QED
  BY <1>3, <1>4, OfItsRange

LEMMA ChangedSequence ==
    ASSUME NEW s, IsSequence(s), NEW i \in 1 .. Len(s), NEW x
    PROVE  /\ IsSequence([s EXCEPT ![i] = x]) /\ Len([s EXCEPT ![i] = x]) = Len(s)
           /\ \A j \in 1 .. Len(s) : [s EXCEPT ![i] = x][j] = IF j = i THEN x ELSE s[j]
<1> DEFINE S == Range(s) \cup {x}
<1>1. s \in Seq(S) /\ Len(s) \in Nat
  <2>1. s \in Seq(Range(s)) /\ Range(s) \subseteq S
    BY DEF IsSequence
  <2>2. s \in [1 .. Len(s) -> Range(s)] /\ Len(s) \in Nat
    BY <2>1, LenProperties
  <2>3. s \in [1 .. Len(s) -> S]
    BY <2>1, <2>2
  <2> HIDE DEF S
  <2> QED
    BY <2>2, <2>3
<1>2. x \in S
  OBVIOUS
<1> HIDE DEF S
<1>3. /\ [s EXCEPT ![i] = x] \in Seq(S) /\ Len([s EXCEPT ![i] = x]) = Len(s)
      /\ \A j \in 1 .. Len(s) : [s EXCEPT ![i] = x][j] = IF j = i THEN x ELSE s[j]
  BY <1>1, <1>2, ExceptSeq
<1> QED
  BY <1>3, OfItsRange

\* The lengths that are counted are numbers.
LEMMA Lengths ==
    ASSUME FramesShape
    PROVE  /\ Len(frames) \in Nat /\ Len(commands) \in Nat /\ Len(opened) \in Nat /\ Len(closed) \in Nat
           /\ DOMAIN frames = 1 .. Len(frames) /\ DOMAIN commands = 1 .. Len(commands)
           /\ DOMAIN opened = 1 .. Len(opened) /\ DOMAIN closed = 1 .. Len(closed)
           /\ frames = <<>> <=> Len(frames) = 0
           /\ frames # <<>> => Top = frames[Len(frames)] /\ FrameIs(Top) /\ Len(frames) \in 1 .. Len(frames)
<1>1. /\ Len(frames) \in Nat /\ Len(commands) \in Nat /\ Len(opened) \in Nat /\ Len(closed) \in Nat
      /\ DOMAIN frames = 1 .. Len(frames) /\ DOMAIN commands = 1 .. Len(commands)
      /\ DOMAIN opened = 1 .. Len(opened) /\ DOMAIN closed = 1 .. Len(closed)
      /\ frames = <<>> <=> Len(frames) = 0
  BY SequenceIs DEF FramesShape
<1>2. frames # <<>> => Len(frames) \in 1 .. Len(frames) /\ Top = frames[Len(frames)]
  BY <1>1 DEF Top, Last
<1> QED
  BY <1>1, <1>2 DEF FramesShape

\* The innermost frame is replaced by another.
LEMMA TopBecomes ==
    ASSUME FramesShape, frames # <<>>, NEW f, FrameIs(f), frames' = [frames EXCEPT ![Len(frames)] = f]
    PROVE  /\ IsSequence(frames') /\ Len(frames') = Len(frames) /\ frames' # <<>> /\ Top' = f
           /\ \A i \in 1 .. Len(frames) : frames'[i] = IF i = Len(frames) THEN f ELSE frames[i]
           /\ \A i \in 1 .. Len(frames') : FrameIs(frames'[i]) /\ (i < Len(frames') => frames'[i].at = "called")
<1>1. IsSequence(frames) /\ Len(frames) \in 1 .. Len(frames) /\ Len(frames) \in Nat
  BY Lengths DEF FramesShape
<1> DEFINE n == Len(frames)
<1> HIDE DEF n
<1> DEFINE s == [frames EXCEPT ![n] = f]
<1>0. n \in 1 .. Len(frames)
  BY <1>1 DEF n
<1>2. /\ IsSequence(s) /\ Len(s) = Len(frames)
      /\ \A i \in 1 .. Len(frames) : s[i] = IF i = Len(frames) THEN f ELSE frames[i]
  <2>1. /\ IsSequence(s) /\ Len(s) = Len(frames)
        /\ \A i \in 1 .. Len(frames) : s[i] = IF i = n THEN f ELSE frames[i]
    <3> DEFINE q == frames
    <3>1. IsSequence(q) /\ n \in 1 .. Len(q)
      BY <1>0, <1>1
    <3> HIDE DEF q
    <3>2. /\ IsSequence([q EXCEPT ![n] = f]) /\ Len([q EXCEPT ![n] = f]) = Len(q)
          /\ \A i \in 1 .. Len(q) : [q EXCEPT ![n] = f][i] = IF i = n THEN f ELSE q[i]
      BY ONLY <3>1, ChangedSequence, SMTT(30)
    <3> QED
      BY <3>2 DEF q
  <2> HIDE DEF s
  <2> QED
    BY <2>1 DEF n
<1> HIDE DEF s
<1>3. s # <<>> /\ Last(s) = f
  BY <1>1, <1>2, SequenceIs DEF Last
<1>4. frames' = s
  BY DEF s, n
<1>5. \A i \in 1 .. Len(s) : FrameIs(s[i]) /\ (i < Len(s) => s[i].at = "called")
  BY <1>1, <1>2 DEF FramesShape
<1> QED
  BY <1>2, <1>3, <1>4, <1>5 DEF Top

Places == {"try", "start", "tracked", "before", "called", "posted", "after"}

\* A frame keeps its form when its place or its index change.
LEMMA FrameChanges ==
    ASSUME NEW r, FrameIs(r), NEW place
    PROVE  /\ [r EXCEPT !.at = place] = [name |-> r.name, args |-> r.args, at |-> place, hook |-> r.hook, index |-> r.index]
           /\ \A index : [r EXCEPT !.index = index]
                = [name |-> r.name, args |-> r.args, at |-> r.at, hook |-> r.hook, index |-> index]
           /\ r.at \in Places
<1>1. r = [name |-> r.name, args |-> r.args, at |-> r.at, hook |-> r.hook, index |-> r.index] /\ r.at \in Places
  BY DEF FrameIs, Places
<1> DEFINE a == r.name
           b == r.args
           p == r.at
           h == r.hook
           k == r.index
           q == [name |-> a, args |-> b, at |-> p, hook |-> h, index |-> k]
<1>2. r = q
  BY <1>1
<1> HIDE DEF a, b, p, h, k
<1>3. /\ [q EXCEPT !.at = place] = [name |-> a, args |-> b, at |-> place, hook |-> h, index |-> k]
      /\ \A index : [q EXCEPT !.index = index] = [name |-> a, args |-> b, at |-> p, hook |-> h, index |-> index]
  OBVIOUS
<1> HIDE DEF q
<1> QED
  BY <1>1, <1>2, <1>3 DEF a, b, p, h, k

\* So it does when its place and its hook change, or its place and its index.
LEMMA FrameHooked ==
    ASSUME NEW r, FrameIs(r), NEW place, NEW hook
    PROVE  [r EXCEPT !.at = place, !.hook = hook]
             = [name |-> r.name, args |-> r.args, at |-> place, hook |-> hook, index |-> r.index]
<1> DEFINE a == r.name
           b == r.args
           p == r.at
           h == r.hook
           k == r.index
           q == [name |-> a, args |-> b, at |-> p, hook |-> h, index |-> k]
<1>1. r = q
  BY DEF FrameIs
<1> HIDE DEF a, b, p, h, k
<1>2. ASSUME NEW f, f = [q EXCEPT !.at = place, !.hook = hook]
      PROVE  f = [name |-> a, args |-> b, at |-> place, hook |-> hook, index |-> k]
  BY <1>2
<1> HIDE DEF q
<1>3. ASSUME NEW f, f = [r EXCEPT !.at = place, !.hook = hook]
      PROVE  f = [name |-> r.name, args |-> r.args, at |-> place, hook |-> hook, index |-> r.index]
  <2>1. f = [q EXCEPT !.at = place, !.hook = hook]
    BY <1>1, <1>3
  <2> QED
    BY <1>2, <2>1 DEF a, b, p, h, k
<1> QED
  BY <1>3

LEMMA FrameIndexed ==
    ASSUME NEW r, FrameIs(r), NEW place, NEW index
    PROVE  [r EXCEPT !.at = place, !.index = index]
             = [name |-> r.name, args |-> r.args, at |-> place, hook |-> r.hook, index |-> index]
<1> DEFINE a == r.name
           b == r.args
           p == r.at
           h == r.hook
           k == r.index
           q == [name |-> a, args |-> b, at |-> p, hook |-> h, index |-> k]
<1>1. r = q
  BY DEF FrameIs
<1> HIDE DEF a, b, p, h, k
<1>2. ASSUME NEW f, f = [q EXCEPT !.at = place, !.index = index]
      PROVE  f = [name |-> a, args |-> b, at |-> place, hook |-> h, index |-> index]
  BY <1>2
<1> HIDE DEF q
<1>3. ASSUME NEW f, f = [r EXCEPT !.at = place, !.index = index]
      PROVE  f = [name |-> r.name, args |-> r.args, at |-> place, hook |-> r.hook, index |-> index]
  <2>1. f = [q EXCEPT !.at = place, !.index = index]
    BY <1>1, <1>3
  <2> QED
    BY <1>2, <2>1 DEF a, b, p, h, k
<1> QED
  BY <1>3

LEMMA FrameOf ==
    ASSUME NEW name, NEW args, NEW place \in Places, NEW hook, NEW index
    PROVE  LET f == [name |-> name, args |-> args, at |-> place, hook |-> hook, index |-> index]
           IN  FrameIs(f) /\ f.name = name /\ f.args = args /\ f.at = place /\ f.hook = hook /\ f.index = index
BY DEF FrameIs, Places

\* The innermost frame goes on without a command that begins or ends.
LEMMA TopGoesOn ==
    ASSUME CommandsIInv, status = "runs", status' = "runs", NEW f, FrameIs(f),
           f.name = Top.name, f.args = Top.args, f.hook = Top.hook,
           frames' = [frames EXCEPT ![Len(frames)] = f], UNCHANGED <<commands, opened, closed>>,
           \/ f.at = Top.at
           \/ Top.at = "try" /\ f.at = "start"
           \/ Top.at = "before" /\ f.at = "called"
           \/ Top.at = "called" /\ f.at = "posted"
    PROVE  CommandsIInv'
<1> DEFINE n == Len(frames)
           t == Top
<1>1. FramesShape /\ ClosedIsOpened /\ Counted /\ frames # <<>>
  BY DEF CommandsIInv, FramesShape
<1>2. t = frames[n] /\ FrameIs(t) /\ n \in 1 .. n /\ n \in Nat
  BY <1>1, Lengths
<1>3. /\ IsSequence(frames') /\ Len(frames') = n /\ frames' # <<>> /\ Top' = f
      /\ \A i \in 1 .. n : frames'[i] = IF i = n THEN f ELSE frames[i]
      /\ \A i \in 1 .. n : FrameIs(frames'[i]) /\ (i < n => frames'[i].at = "called")
  BY <1>1, TopBecomes, ZenonT(30)
<1>4. \A i \in 1 .. n : frames'[i].name = frames[i].name /\ frames'[i].args = frames[i].args /\ frames'[i].hook = frames[i].hook
  <2>1. ASSUME NEW i \in 1 .. n
        PROVE  frames'[i].name = frames[i].name /\ frames'[i].args = frames[i].args /\ frames'[i].hook = frames[i].hook
    <3>1. CASE i = n
      <4>1. frames'[i] = f
        BY <1>3, <3>1
      <4>2. frames[i] = t
        BY <1>2, <3>1
      <4>3. f.name = Top.name /\ f.args = Top.args /\ f.hook = Top.hook
        OBVIOUS
      <4> QED
        BY ONLY <4>1, <4>2, <4>3 DEF t
    <3>2. CASE i # n
      <4>1. frames'[i] = frames[i]
        BY ONLY <1>3, <2>1, <3>2
      <4> QED
        BY ONLY <4>1
    <3> QED
      BY <3>1, <3>2
  <2> QED
    BY <2>1
<1>5. FramesShape'
  BY <1>1, <1>3 DEF FramesShape
<1>6. ClosedIsOpened'
  BY <1>1 DEF ClosedIsOpened
<1>7. Counted'
  <2> HIDE DEF n, t
  <2>1. Len(frames') = n /\ Top'.at = f.at /\ t.at \in Places
    BY <1>2, <1>3 DEF n, FrameIs, Places
  <2>2. /\ Len(commands) = IF t.at \in {"try", "start"} THEN n - 1 ELSE n
        /\ \A i \in 1 .. Len(commands) : commands[i] = [name |-> frames[i].name, args |-> frames[i].args]
        /\ t.at \in {"try", "start", "tracked"} => Len(opened) = n - 1 /\ Len(closed) = 0
        /\ t.at = "before" => Len(opened) = n /\ Len(closed) = 0
        /\ t.at \in {"called", "posted"} => Len(opened) >= n /\ Len(closed) = Len(opened) - n
        /\ t.at = "after" => Len(opened) >= n /\ Len(closed) = Len(opened) - n + 1
        /\ \A i \in 1 .. n : i <= Len(opened) => opened[i] = frames[i].hook
    BY <1>1 DEF Counted, n, t
  <2>3. f.at \in {"try", "start"} <=> t.at \in {"try", "start"}
    BY DEF t
  <2>4. Len(commands) \in 0 .. n
    BY <1>2, <2>2 DEF n
  <2>5. /\ Len(commands)' = IF f.at \in {"try", "start"} THEN n - 1 ELSE n
        /\ \A i \in 1 .. Len(commands) : commands'[i] = [name |-> frames'[i].name, args |-> frames'[i].args]
    <3>1. ASSUME NEW i \in 1 .. Len(commands)
          PROVE  commands'[i] = [name |-> frames'[i].name, args |-> frames'[i].args]
      <4>1. i \in 1 .. n
        BY <1>2, <2>4 DEF n
      <4>2. commands[i] = [name |-> frames[i].name, args |-> frames[i].args]
        BY <2>2
      <4> QED
        BY <1>4, <4>1, <4>2 DEF n
    <3> QED
      BY <2>2, <2>3, <3>1
  <2>6. \A i \in 1 .. n : i <= Len(opened)' => opened'[i] = frames'[i].hook
    BY <1>4, <2>2 DEF n
  <2>7. /\ f.at \in {"try", "start", "tracked"} => Len(opened) = n - 1 /\ Len(closed) = 0
        /\ f.at = "before" => Len(opened) = n /\ Len(closed) = 0
        /\ f.at \in {"called", "posted"} => Len(opened) >= n /\ Len(closed) = Len(opened) - n
        /\ f.at = "after" => Len(opened) >= n /\ Len(closed) = Len(opened) - n + 1
    BY <1>2, <2>2 DEF n, t
  <2> QED
    BY <2>1, <2>2, <2>3, <2>5, <2>6, <2>7 DEF Counted
<1> QED
  BY <1>5, <1>6, <1>7 DEF CommandsIInv

\* The process exits.
LEMMA ThrowKeeps ==
    ASSUME CommandsIInv, status' = "exit", UNCHANGED <<frames, opened, closed>>, IsSequence(commands')
    PROVE  CommandsIInv'
<1>1. FramesShape'
  BY DEF CommandsIInv, FramesShape
<1>2. ClosedIsOpened'
  BY DEF CommandsIInv, ClosedIsOpened
<1> QED
  BY <1>1, <1>2 DEF CommandsIInv

\* tryExecuteCommand returns, without having begun the command or when it has ended.
LEMMA ReturnKeeps ==
    ASSUME CommandsIInv, status = "runs", Return, UNCHANGED <<opened, closed>>,
           \/ Top.at = "try" /\ UNCHANGED commands
           \/ Top.at = "after" /\ commands' = Front(commands)
    PROVE  CommandsIInv'
<1> DEFINE n == Len(frames)
           t == Top
<1>1. FramesShape /\ ClosedIsOpened /\ Counted /\ frames # <<>>
  BY DEF CommandsIInv, FramesShape
<1>2. t = frames[n] /\ FrameIs(t) /\ n \in 1 .. n /\ n \in Nat /\ Len(commands) \in Nat /\ Len(opened) \in Nat /\ Len(closed) \in Nat
  BY <1>1, Lengths
<1>3. IsSequence(frames') /\ Len(frames') = n - 1 /\ \A i \in 1 .. n - 1 : frames'[i] = frames[i]
  BY <1>1, FrontOfSequence DEF Return, FramesShape
<1>4. status' = IF n = 1 THEN "done" ELSE "runs"
  BY DEF Return
<1> HIDE DEF n, t
<1>5. /\ Len(commands) = IF t.at = "try" THEN n - 1 ELSE n
      /\ \A i \in 1 .. Len(commands) : commands[i] = [name |-> frames[i].name, args |-> frames[i].args]
      /\ Len(closed) = Len(opened) - (n - 1) /\ Len(opened) >= n - 1
      /\ \A i \in 1 .. n : i <= Len(opened) => opened[i] = frames[i].hook
  <2>1. /\ Len(commands) = IF t.at = "try" THEN n - 1 ELSE n
        /\ \A i \in 1 .. Len(commands) : commands[i] = [name |-> frames[i].name, args |-> frames[i].args]
        /\ \A i \in 1 .. n : i <= Len(opened) => opened[i] = frames[i].hook
    BY <1>1 DEF Counted, n, t
  <2>2. /\ t.at = "try" => Len(opened) = n - 1 /\ Len(closed) = 0
        /\ t.at = "after" => Len(opened) >= n /\ Len(closed) = Len(opened) - n + 1
        /\ t.at \in {"try", "after"}
    BY <1>1 DEF Counted, n, t
  <2>3. Len(closed) = Len(opened) - (n - 1) /\ Len(opened) >= n - 1
    BY <1>2, <2>2
  <2> QED
    BY <2>1, <2>3
<1>6. /\ IsSequence(commands') /\ Len(commands') = n - 1
      /\ \A i \in 1 .. n - 1 : commands'[i] = [name |-> frames[i].name, args |-> frames[i].args]
  <2>1. CASE t.at = "try"
    <3>1. commands' = commands
      BY <2>1 DEF t
    <3> QED
      BY <1>1, <1>5, <2>1, <3>1 DEF FramesShape
  <2>2. CASE t.at = "after"
    <3>1. Len(commands) = n /\ IsSequence(commands) /\ commands' = Front(commands)
      BY <1>1, <1>5, <2>2 DEF FramesShape, t
    <3>2. commands # <<>>
      BY <1>2, <3>1, EmptySequence
    <3>3. IsSequence(commands') /\ Len(commands') = n - 1 /\ \A i \in 1 .. n - 1 : commands'[i] = commands[i]
      BY <3>1, <3>2, FrontOfSequence
    <3>4. \A i \in 1 .. n - 1 : commands[i] = [name |-> frames[i].name, args |-> frames[i].args]
      BY <1>2, <1>5, <3>1
    <3> QED
      BY <3>3, <3>4
  <2> QED
    BY <2>1, <2>2 DEF t
<1>7. \A i \in 1 .. n - 1 : FrameIs(frames[i]) /\ frames[i].at = "called"
  BY <1>1, <1>2 DEF FramesShape, n
<1>8. FramesShape'
  <2>1. status' = "runs" => frames' # <<>>
    <3>1. n # 1 => Len(frames') # 0
      BY <1>2, <1>3
    <3> QED
      BY <1>4, <3>1, EmptySequence
  <2> QED
    BY <1>1, <1>2, <1>3, <1>4, <1>6, <1>7, <2>1 DEF FramesShape
<1>9. ClosedIsOpened'
  BY <1>1 DEF ClosedIsOpened
<1>10. status' = "runs" => Counted'
  <2> SUFFICES ASSUME n # 1 PROVE Counted'
    BY <1>4
  <2>1. n - 1 \in 1 .. n - 1
    BY <1>2
  <2>2. Top' = frames[n - 1]
    BY <1>3, <2>1 DEF Top, Last
  <2>3. Top'.at = "called"
    BY <1>7, <2>1, <2>2
  <2>4. \A i \in 1 .. n - 1 : i <= Len(opened)' => opened'[i] = frames'[i].hook
    BY <1>2, <1>3, <1>5
  <2> QED
    BY <1>2, <1>3, <1>5, <1>6, <2>3, <2>4 DEF Counted
<1>11. status' # "runs" => Len(commands)' = 0 /\ Len(closed)' = Len(opened)'
  BY <1>2, <1>4, <1>5, <1>6
<1> QED
  BY <1>4, <1>8, <1>9, <1>10, <1>11 DEF CommandsIInv

LEMMA GotoKeeps ==
    ASSUME CommandsIInv, status = "runs", NEW place \in Places, Goto(place), UNCHANGED <<status, commands, opened, closed>>,
           \/ Top.at = "try" /\ place = "start"
           \/ Top.at = "before" /\ place = "called"
           \/ Top.at = "called" /\ place = "posted"
    PROVE  CommandsIInv'
<1> DEFINE f == [Top EXCEPT !.at = place]
<1>1. FrameIs(Top) /\ Top = frames[Len(frames)]
  BY Lengths DEF CommandsIInv, FramesShape
<1>2. f = [name |-> Top.name, args |-> Top.args, at |-> place, hook |-> Top.hook, index |-> Top.index]
  BY <1>1, FrameChanges
<1>3. FrameIs(f) /\ f.name = Top.name /\ f.args = Top.args /\ f.hook = Top.hook /\ f.at = place
  BY <1>2, FrameOf
<1>4. frames' = [frames EXCEPT ![Len(frames)] = f]
  BY <1>1 DEF Goto
<1> HIDE DEF f
<1> QED
  BY <1>3, <1>4, TopGoesOn

LEMMA RunHookKeeps ==
    ASSUME CommandsIInv, RunHook
    PROVE  CommandsIInv'
<1>1. status = "runs" /\ FrameIs(Top) /\ Top = frames[Len(frames)]
  BY Lengths DEF CommandsIInv, FramesShape, RunHook, At
<1> DEFINE hooks == HooksOf(Top.at, Top.hook)
           hook == hooks[Top.index + 1]
           index == IF hook = "invalid" THEN Len(hooks) ELSE Top.index + 1
           f == [Top EXCEPT !.index = index]
<1>2. CASE hook # "invalid" /\ Throw(TRUE)
  <2>1. IsSequence(commands') /\ UNCHANGED <<frames, opened, closed>> /\ status' = "exit"
    BY <1>2 DEF Throw, commandsHistory, CommandsIInv, FramesShape
  <2> QED
    BY <2>1, ThrowKeeps
<1>3. CASE /\ frames' = [frames EXCEPT ![Len(frames)].index = IF hook = "invalid" THEN Len(hooks) ELSE @ + 1]
           /\ UNCHANGED <<commands, generated, noHooks, line, status, helpShown, commandsHistory>>
  <2>1. frames' = [frames EXCEPT ![Len(frames)] = f]
    BY <1>1, <1>3
  <2> HIDE DEF index
  <2>2. "try" \in Places
    BY DEF Places
  <2>3. f = [name |-> Top.name, args |-> Top.args, at |-> Top.at, hook |-> Top.hook, index |-> index] /\ Top.at \in Places
    BY <1>1, <2>2, FrameChanges
  <2>4. FrameIs(f) /\ f.name = Top.name /\ f.args = Top.args /\ f.hook = Top.hook /\ f.at = Top.at
    BY <2>3, FrameOf
  <2>5. status' = "runs" /\ UNCHANGED <<commands, opened, closed>>
    BY <1>1, <1>3 DEF commandsHistory
  <2> HIDE DEF f
  <2> QED
    BY <1>1, <2>1, <2>4, <2>5, TopGoesOn
<1> QED
  BY <1>2, <1>3 DEF RunHook

\* The line begins.
LEMMA DispatchKeeps ==
    ASSUME CommandsIInv, NEW words, NEW help, DispatchCommand(words, help)
    PROVE  CommandsIInv'
<1>1. /\ FramesShape /\ status = "waits" /\ status' = "runs" /\ UNCHANGED <<commands, opened, closed>>
      /\ Len(commands) = 0 /\ Len(closed) = 0 /\ Len(opened) = 0
  BY DEF CommandsIInv, DispatchCommand, commandsHistory
<1>2. PICK name, args : frames' = <<Frame(name, args)>>
  BY DEF DispatchCommand
<1> DEFINE f == Frame(name, args)
<1>3. FrameIs(f) /\ f.at = "try"
  BY FrameOf DEF Frame, Places
<1> HIDE DEF f
<1>4. frames' = <<f>>
  BY <1>2 DEF f
<1>5. IsSequence(frames') /\ Len(frames') = 1 /\ frames'[1] = f /\ Top' = f /\ frames' # <<>>
  <2>1. <<f>> \in Seq({f}) /\ Len(<<f>>) = 1 /\ <<f>>[1] = f /\ <<f>> # <<>>
    OBVIOUS
  <2>2. IsSequence(<<f>>)
    BY <2>1, OfItsRange
  <2> QED
    BY <1>4, <2>1, <2>2 DEF Top, Last
<1>6. FramesShape'
  BY <1>1, <1>3, <1>5 DEF FramesShape
<1>7. ClosedIsOpened'
  BY <1>1 DEF ClosedIsOpened
<1>8. Counted'
  BY <1>1, <1>3, <1>5 DEF Counted
<1> QED
  BY <1>1, <1>6, <1>7, <1>8 DEF CommandsIInv

\* executeCommandUnchecked begins.
LEMMA StartKeeps ==
    ASSUME CommandsIInv, Start
    PROVE  CommandsIInv'
<1> DEFINE n == Len(frames)
           t == Top
           c == [name |-> t.name, args |-> t.args]
           f == [t EXCEPT !.at = "tracked"]
<1>1. /\ FramesShape /\ ClosedIsOpened /\ Counted /\ frames # <<>> /\ status = "runs" /\ t.at = "start"
  BY DEF CommandsIInv, FramesShape, Start, At
<1>2. /\ t = frames[n] /\ FrameIs(t) /\ n \in 1 .. n /\ n \in Nat /\ Len(commands) = n - 1
      /\ \A i \in 1 .. n - 1 : commands[i] = [name |-> frames[i].name, args |-> frames[i].args]
      /\ Len(opened) = n - 1 /\ Len(closed) = 0
      /\ \A i \in 1 .. n : i <= Len(opened) => opened[i] = frames[i].hook
  BY <1>1, Lengths DEF Counted
<1>3. commands' = Append(commands, c)
  BY DEF Start
<1> HIDE DEF c, n, t
<1>4. /\ IsSequence(commands') /\ Len(commands') = n
      /\ \A i \in 1 .. n - 1 : commands'[i] = commands[i]
      /\ commands'[n] = c
  <2>1. /\ IsSequence(commands') /\ Len(commands') = Len(commands) + 1
        /\ \A i \in 1 .. Len(commands) : commands'[i] = commands[i]
        /\ commands'[Len(commands) + 1] = c
    BY <1>1, <1>3, AppendedSequence DEF FramesShape
  <2> QED
    BY <1>2, <2>1
<1>5. CASE status' = "exit" /\ UNCHANGED <<frames, commandsHistory>>
  BY <1>4, <1>5, ThrowKeeps DEF commandsHistory
<1>6. CASE Goto("tracked") /\ UNCHANGED <<status, commandsHistory>>
  <2>1. "tracked" \in Places
    BY DEF Places
  <2>2. f = [name |-> t.name, args |-> t.args, at |-> "tracked", hook |-> t.hook, index |-> t.index]
    BY <1>2, FrameChanges
  <2>3. FrameIs(f) /\ f.name = t.name /\ f.args = t.args /\ f.hook = t.hook /\ f.at = "tracked"
    BY <2>1, <2>2, FrameOf
  <2>4. frames' = [frames EXCEPT ![Len(frames)] = f]
    BY <1>2, <1>6 DEF Goto, n
  <2> HIDE DEF f
  <2>5. /\ IsSequence(frames') /\ Len(frames') = n /\ frames' # <<>> /\ Top' = f
        /\ \A i \in 1 .. n : frames'[i] = IF i = n THEN f ELSE frames[i]
        /\ \A i \in 1 .. n : FrameIs(frames'[i]) /\ (i < n => frames'[i].at = "called")
    BY <1>1, <2>3, <2>4, TopBecomes DEF n
  <2>6. UNCHANGED <<opened, closed, status>>
    BY <1>6 DEF commandsHistory
  <2>7. FramesShape'
    BY <1>1, <1>4, <2>5, <2>6 DEF FramesShape
  <2>8. ClosedIsOpened'
    BY <1>1, <2>6 DEF ClosedIsOpened
  <2>9. Counted'
    <3>1. \A i \in 1 .. n : commands'[i] = [name |-> frames'[i].name, args |-> frames'[i].args]
      <4>1. ASSUME NEW i \in 1 .. n PROVE frames'[i].name = frames[i].name /\ frames'[i].args = frames[i].args
        BY <1>2, <2>3, <2>5
      <4>2. commands'[n] = [name |-> frames'[n].name, args |-> frames'[n].args]
        BY <1>2, <1>4, <2>3, <2>5 DEF c
      <4>3. ASSUME NEW i \in 1 .. n - 1 PROVE commands'[i] = [name |-> frames'[i].name, args |-> frames'[i].args]
        <5>1. i \in 1 .. n
          BY <1>2
        <5> QED
          BY <1>2, <1>4, <4>1, <5>1
      <4>4. \A i \in 1 .. n : i = n \/ i \in 1 .. n - 1
        BY <1>2
      <4> QED
        BY <4>2, <4>3, <4>4
    <3>2. \A i \in 1 .. n : i <= Len(opened)' => opened'[i] = frames'[i].hook
      BY <1>2, <2>3, <2>5, <2>6
    <3> QED
      BY <1>2, <1>4, <2>3, <2>5, <2>6, <3>1, <3>2 DEF Counted
  <2> QED
    BY <1>1, <2>6, <2>7, <2>8, <2>9 DEF CommandsIInv
<1> QED
  BY <1>5, <1>6 DEF Start

\* executeBeforeHooks begins.
LEMMA BeforeKeeps ==
    ASSUME CommandsIInv, BeginBeforeHooks
    PROVE  CommandsIInv'
<1> DEFINE n == Len(frames)
           t == Top
           hook == IF Command.hooks THEN HookName(Top.name, Top.args) ELSE <<>>
           f == [t EXCEPT !.at = "before", !.hook = hook]
<1>1. /\ FramesShape /\ ClosedIsOpened /\ Counted /\ frames # <<>> /\ status = "runs" /\ t.at = "tracked"
      /\ UNCHANGED <<status, commands, closed>>
  BY DEF CommandsIInv, FramesShape, BeginBeforeHooks, At
<1>2. /\ t = frames[n] /\ FrameIs(t) /\ n \in 1 .. n /\ n \in Nat /\ Len(commands) = n
      /\ \A i \in 1 .. n : commands[i] = [name |-> frames[i].name, args |-> frames[i].args]
      /\ Len(opened) = n - 1 /\ Len(closed) = 0
      /\ \A i \in 1 .. n : i <= Len(opened) => opened[i] = frames[i].hook
  BY <1>1, Lengths DEF Counted
<1>3. opened' = Append(opened, hook) /\ frames' = [frames EXCEPT ![Len(frames)] = f]
  BY DEF BeginBeforeHooks
<1> HIDE DEF n, t, hook
<1>4. f = [name |-> t.name, args |-> t.args, at |-> "before", hook |-> hook, index |-> t.index] /\ "before" \in Places
  <2>1. FrameIs(t)
    BY <1>2
  <2>2. f = [name |-> t.name, args |-> t.args, at |-> "before", hook |-> hook, index |-> t.index]
    BY <2>1, FrameHooked
  <2> HIDE DEF f
  <2> QED
    BY <2>2 DEF Places
<1>5. FrameIs(f) /\ f.name = t.name /\ f.args = t.args /\ f.hook = hook /\ f.at = "before"
  BY <1>4, FrameOf
<1> HIDE DEF f
<1>6. /\ IsSequence(opened') /\ Len(opened') = n
      /\ \A i \in 1 .. n - 1 : opened'[i] = opened[i]
      /\ opened'[n] = hook
  <2>1. /\ IsSequence(opened') /\ Len(opened') = Len(opened) + 1
        /\ \A i \in 1 .. Len(opened) : opened'[i] = opened[i]
        /\ opened'[Len(opened) + 1] = hook
    BY <1>1, <1>3, AppendedSequence DEF FramesShape
  <2> QED
    BY <1>2, <2>1
<1>7. /\ IsSequence(frames') /\ Len(frames') = n /\ frames' # <<>> /\ Top' = f
      /\ \A i \in 1 .. n : frames'[i] = IF i = n THEN f ELSE frames[i]
      /\ \A i \in 1 .. n : FrameIs(frames'[i]) /\ (i < n => frames'[i].at = "called")
  BY <1>1, <1>3, <1>5, TopBecomes DEF n
<1>8. FramesShape'
  BY <1>1, <1>6, <1>7 DEF FramesShape
<1>9. ClosedIsOpened'
  BY <1>1, <1>2, <1>6 DEF ClosedIsOpened
<1>10. Counted'
  <2>1. \A i \in 1 .. n : commands'[i] = [name |-> frames'[i].name, args |-> frames'[i].args]
    BY <1>1, <1>2, <1>5, <1>7
  <2>2. \A i \in 1 .. n : i <= Len(opened)' => opened'[i] = frames'[i].hook
    BY <1>2, <1>5, <1>6, <1>7
  <2> QED
    BY <1>1, <1>2, <1>5, <1>6, <1>7, <2>1, <2>2 DEF Counted
<1> QED
  BY <1>1, <1>8, <1>9, <1>10 DEF CommandsIInv

\* executeAfterHooks begins.
LEMMA AfterKeeps ==
    ASSUME CommandsIInv, BeginAfterHooks
    PROVE  CommandsIInv'
<1> DEFINE n == Len(frames)
           t == Top
           o == Len(opened)
           f == [t EXCEPT !.at = "after", !.index = 0]
<1>1. /\ FramesShape /\ ClosedIsOpened /\ Counted /\ frames # <<>> /\ status = "runs" /\ t.at = "posted"
      /\ UNCHANGED <<status, commands, opened>>
  BY DEF CommandsIInv, FramesShape, BeginAfterHooks, At
<1>2. /\ t = frames[n] /\ FrameIs(t) /\ n \in 1 .. n /\ n \in Nat /\ Len(commands) = n
      /\ \A i \in 1 .. n : commands[i] = [name |-> frames[i].name, args |-> frames[i].args]
      /\ o \in Nat /\ o >= n /\ Len(closed) = o - n
      /\ \A i \in 1 .. n : i <= o => opened[i] = frames[i].hook
  BY <1>1, Lengths DEF Counted
<1>3. closed' = Append(closed, t.hook) /\ frames' = [frames EXCEPT ![Len(frames)] = f]
  BY DEF BeginAfterHooks
<1> HIDE DEF n, t, o
<1>4. f = [name |-> t.name, args |-> t.args, at |-> "after", hook |-> t.hook, index |-> 0] /\ "after" \in Places
  <2>1. FrameIs(t)
    BY <1>2
  <2>2. f = [name |-> t.name, args |-> t.args, at |-> "after", hook |-> t.hook, index |-> 0]
    BY <2>1, FrameIndexed
  <2> HIDE DEF f
  <2> QED
    BY <2>2 DEF Places
<1>5. FrameIs(f) /\ f.name = t.name /\ f.args = t.args /\ f.hook = t.hook /\ f.at = "after"
  BY <1>4, FrameOf
<1> HIDE DEF f
<1>6. /\ IsSequence(closed') /\ Len(closed') = o - n + 1
      /\ \A i \in 1 .. o - n : closed'[i] = closed[i]
      /\ closed'[o - n + 1] = t.hook
  <2>1. /\ IsSequence(closed') /\ Len(closed') = Len(closed) + 1
        /\ \A i \in 1 .. Len(closed) : closed'[i] = closed[i]
        /\ closed'[Len(closed) + 1] = t.hook
    BY <1>1, <1>3, AppendedSequence DEF FramesShape
  <2> QED
    BY <1>2, <2>1
<1>7. /\ IsSequence(frames') /\ Len(frames') = n /\ frames' # <<>> /\ Top' = f
      /\ \A i \in 1 .. n : frames'[i] = IF i = n THEN f ELSE frames[i]
      /\ \A i \in 1 .. n : FrameIs(frames'[i]) /\ (i < n => frames'[i].at = "called")
  BY <1>1, <1>3, <1>5, TopBecomes DEF n
<1>8. FramesShape'
  BY <1>1, <1>6, <1>7 DEF FramesShape
<1>9. ClosedIsOpened'
  <2>1. Len(closed') <= o /\ o = Len(opened')
    BY <1>1, <1>2, <1>6 DEF o
  <2>2. ASSUME NEW i \in 1 .. Len(closed') PROVE closed'[i] = opened[o + 1 - i]
    <3>1. CASE i = o - n + 1
      <4>1. o + 1 - i = n /\ n <= o
        BY <1>2, <3>1
      <4>2. opened[n] = t.hook
        BY <1>2, <4>1
      <4> QED
        BY <1>6, <3>1, <4>1, <4>2
    <3>2. CASE i # o - n + 1
      <4>1. i \in 1 .. o - n
        BY <1>2, <1>6, <3>2
      <4>2. closed[i] = opened[o + 1 - i]
        BY <1>1, <1>2, <4>1 DEF ClosedIsOpened, o
      <4> QED
        BY <1>6, <4>1, <4>2
    <3> QED
      BY <3>1, <3>2
  <2> QED
    BY <1>1, <2>1, <2>2 DEF ClosedIsOpened, o
<1>10. Counted'
  <2>1. \A i \in 1 .. n : commands'[i] = [name |-> frames'[i].name, args |-> frames'[i].args]
    BY <1>1, <1>2, <1>5, <1>7
  <2>2. \A i \in 1 .. n : i <= Len(opened)' => opened'[i] = frames'[i].hook
    BY <1>1, <1>2, <1>5, <1>7 DEF o
  <2>3. Len(opened') = o /\ Len(commands') = n
    BY <1>1, <1>2, SMTT(30) DEF o
  <2> QED
    BY <1>2, <1>5, <1>6, <1>7, <2>1, <2>2, <2>3 DEF Counted
<1> QED
  BY <1>1, <1>8, <1>9, <1>10 DEF CommandsIInv

\* The innermost frame is replaced and gets another one below it.
LEMMA FrameIsAdded ==
    ASSUME FramesShape, frames # <<>>, NEW f, NEW new,
           frames' = Append([frames EXCEPT ![Len(frames)] = f], new)
    PROVE  /\ IsSequence(frames') /\ Len(frames') = Len(frames) + 1
           /\ \A i \in 1 .. Len(frames) : frames'[i] = IF i = Len(frames) THEN f ELSE frames[i]
           /\ frames'[Len(frames) + 1] = new /\ Top' = new
<1>1. IsSequence(frames) /\ Len(frames) \in 1 .. Len(frames) /\ Len(frames) \in Nat
  BY Lengths DEF FramesShape
<1> DEFINE n == Len(frames)
           q == frames
<1>2. IsSequence(q) /\ n \in 1 .. Len(q)
  BY <1>1
<1>3. frames' = Append([q EXCEPT ![n] = f], new) /\ Len(q) = n
  OBVIOUS
<1> HIDE DEF n, q
<1>4. /\ IsSequence([q EXCEPT ![n] = f]) /\ Len([q EXCEPT ![n] = f]) = Len(q)
      /\ \A i \in 1 .. Len(q) : [q EXCEPT ![n] = f][i] = IF i = n THEN f ELSE q[i]
  BY ONLY <1>2, ChangedSequence, SMTT(30)
<1> DEFINE s == [q EXCEPT ![n] = f]
<1> HIDE DEF s
<1>5. /\ IsSequence(frames') /\ Len(frames') = Len(s) + 1
      /\ \A i \in 1 .. Len(s) : frames'[i] = s[i]
      /\ frames'[Len(s) + 1] = new
  <2>1. IsSequence(s)
    BY <1>4 DEF s
  <2>2. /\ IsSequence(Append(s, new)) /\ Len(Append(s, new)) = Len(s) + 1
        /\ \A i \in 1 .. Len(s) : Append(s, new)[i] = s[i]
        /\ Append(s, new)[Len(s) + 1] = new
    BY ONLY <2>1, AppendedSequence
  <2> QED
    BY <1>3, <2>2 DEF s
<1>6. Last(frames') = new
  BY <1>5 DEF Last
<1> QED
  BY <1>2, <1>3, <1>4, <1>5, <1>6 DEF n, q, s, Top

\* A command executes another.
LEMMA CallKeeps ==
    ASSUME CommandsIInv, At("before"), NEW name, NEW args,
           frames' = Append([frames EXCEPT ![Len(frames)].at = "called"], Frame(name, args)),
           UNCHANGED <<status, commands, opened, closed>>
    PROVE  CommandsIInv'
<1> DEFINE n == Len(frames)
           t == Top
           f == [t EXCEPT !.at = "called"]
           s == [frames EXCEPT ![Len(frames)] = f]
           new == Frame(name, args)
<1>1. FramesShape /\ ClosedIsOpened /\ Counted /\ frames # <<>> /\ status = "runs" /\ t.at = "before"
  BY DEF CommandsIInv, FramesShape, At
<1>2. /\ t = frames[n] /\ FrameIs(t) /\ n \in 1 .. n /\ n \in Nat /\ Len(commands) = n
      /\ \A i \in 1 .. n : commands[i] = [name |-> frames[i].name, args |-> frames[i].args]
      /\ Len(opened) = n /\ Len(closed) = 0
      /\ \A i \in 1 .. n : i <= Len(opened) => opened[i] = frames[i].hook
  BY <1>1, Lengths DEF Counted
<1>3. frames' = Append(s, new)
  BY <1>2 DEF n
<1> HIDE DEF n, t
<1>4. f = [name |-> t.name, args |-> t.args, at |-> "called", hook |-> t.hook, index |-> t.index] /\ "called" \in Places
  <2>1. FrameIs(t)
    BY <1>2
  <2>2. f = [name |-> t.name, args |-> t.args, at |-> "called", hook |-> t.hook, index |-> t.index]
    BY <2>1, FrameChanges
  <2> HIDE DEF f
  <2> QED
    BY <2>2 DEF Places
<1>5. FrameIs(f) /\ f.name = t.name /\ f.args = t.args /\ f.hook = t.hook /\ f.at = "called"
  BY <1>4, FrameOf, SMTT(30)
<1>6. FrameIs(new) /\ new.at = "try"
  BY FrameOf DEF Frame, Places
<1> HIDE DEF f, new
<1>7. frames' = Append([frames EXCEPT ![Len(frames)] = f], new)
  BY <1>3 DEF s
<1>8. /\ IsSequence(frames') /\ Len(frames') = n + 1 /\ Top' = new
      /\ \A i \in 1 .. n : frames'[i] = IF i = n THEN f ELSE frames[i]
      /\ frames'[n + 1] = new
  <2>1. FramesShape /\ frames # <<>>
    BY <1>1
  <2>2. /\ IsSequence(frames') /\ Len(frames') = Len(frames) + 1
        /\ \A i \in 1 .. Len(frames) : frames'[i] = IF i = Len(frames) THEN f ELSE frames[i]
        /\ frames'[Len(frames) + 1] = new /\ Top' = new
    BY ONLY <2>1, <1>7, FrameIsAdded
  <2> QED
    BY <2>2 DEF n
<1>9. frames' # <<>> /\ Top' = new
  <2>1. Len(frames') # 0
    BY <1>2, <1>8
  <2> QED
    BY <1>8, <2>1, EmptySequence
<1>10. FramesShape'
  <2>1. ASSUME NEW i \in 1 .. n + 1 PROVE FrameIs(frames'[i]) /\ (i < n + 1 => frames'[i].at = "called")
    <3>1. CASE i = n + 1
      BY <1>2, <1>6, <1>8, <3>1
    <3>2. CASE i \in 1 .. n
      BY <1>1, <1>2, <1>5, <1>8, <3>2 DEF FramesShape, n
    <3>3. i = n + 1 \/ i \in 1 .. n
      BY <1>2
    <3> QED
      BY <3>1, <3>2, <3>3
  <2> QED
    BY <1>1, <1>8, <1>9, <2>1 DEF FramesShape
<1>11. ClosedIsOpened'
  BY <1>1 DEF ClosedIsOpened
<1>12. Counted'
  <2>1. /\ Len(frames') - 1 = n
        /\ \A i \in 1 .. n : commands'[i] = [name |-> frames'[i].name, args |-> frames'[i].args]
    BY <1>2, <1>5, <1>8
  <2>2. \A i \in 1 .. n + 1 : i <= Len(opened)' => opened'[i] = frames'[i].hook
    BY <1>2, <1>5, <1>8
  <2> QED
    BY <1>2, <1>6, <1>8, <1>9, <2>1, <2>2 DEF Counted
<1> QED
  BY <1>1, <1>10, <1>11, <1>12 DEF CommandsIInv

LEMMA CommandsBegin == CommandsInit => CommandsIInv
BY EmptySequence DEF CommandsInit, CommandsIInv, FramesShape, ClosedIsOpened

\* An action that throws ends the process.
LEMMA ExitKeeps ==
    ASSUME CommandsIInv, NEW suppressHelp, Throw(suppressHelp)
    PROVE  CommandsIInv'
<1>1. IsSequence(commands') /\ UNCHANGED <<frames, opened, closed>> /\ status' = "exit"
  BY DEF Throw, commandsHistory, CommandsIInv, FramesShape
<1> QED
  BY <1>1, ThrowKeeps

LEMMA UnchangedKeeps ==
    ASSUME CommandsIInv, UNCHANGED <<frames, commands, opened, closed, status>>
    PROVE  CommandsIInv'
BY DEF CommandsIInv, FramesShape, ClosedIsOpened, Counted, Top

LEMMA CommandsStep ==
    ASSUME CommandsIInv, [CommandsNext]_commandsVars
    PROVE  CommandsIInv'
<1>0. /\ "start" \in Places /\ "called" \in Places /\ "posted" \in Places
  BY DEF Places
<1>1. ASSUME NEW words \in Line, NEW help \in BOOLEAN, DispatchCommand(words, help) PROVE CommandsIInv'
  BY <1>1, DispatchKeeps
<1>2. CASE OptionsInvalid
  BY <1>2, ExitKeeps DEF OptionsInvalid
<1>3. CASE GenerateDynamicCommands
  <2>1. UNCHANGED <<frames, commands, opened, closed, status>>
    BY <1>3 DEF GenerateDynamicCommands, commandsHistory
  <2> QED
    BY <2>1, UnchangedKeeps
<1>4. CASE UnknownCommand
  <2>1. status = "runs" /\ Top.at = "try" /\ Return /\ UNCHANGED <<commands, opened, closed>>
    BY <1>4 DEF UnknownCommand, At, commandsHistory
  <2> QED
    BY <2>1, ReturnKeeps
<1>5. CASE Validate
  <2>1. CASE Throw(TRUE) \/ Throw(FALSE)
    BY <2>1, ExitKeeps
  <2>2. CASE Goto("start") /\ UNCHANGED <<commands, generated, noHooks, line, status, helpShown, commandsHistory>>
    <3>1. status = "runs" /\ Top.at = "try" /\ UNCHANGED <<status, commands, opened, closed>>
      BY <1>5, <2>2 DEF Validate, At, commandsHistory
    <3> QED
      BY <1>0, <2>2, <3>1, GotoKeeps
  <2> QED
    BY <1>5, <2>1, <2>2 DEF Validate
<1>6. CASE AskCommand
  <2>1. status = "runs" /\ Top.at = "try"
    BY <1>6 DEF AskCommand, At
  <2>2. CASE Goto("start") /\ UNCHANGED <<commands, generated, noHooks, line, status, helpShown, commandsHistory>>
    <3>1. UNCHANGED <<status, commands, opened, closed>>
      BY <2>2 DEF commandsHistory
    <3> QED
      BY <1>0, <2>1, <2>2, <3>1, GotoKeeps
  <2>3. ASSUME NEW suppressHelp \in BOOLEAN, Throw(suppressHelp) PROVE CommandsIInv'
    BY <2>3, ExitKeeps
  <2>4. CASE Return /\ UNCHANGED <<commands, commandsHistory>>
    <3>1. UNCHANGED <<commands, opened, closed>>
      BY <2>4 DEF commandsHistory
    <3> QED
      BY <2>1, <2>4, <3>1, ReturnKeeps
  <2> QED
    BY <1>6, <2>2, <2>3, <2>4 DEF AskCommand
<1>7. CASE Execute
  <2>1. status = "runs" /\ Top.at = "before" /\ At("before")
    BY <1>7 DEF Execute, At
  <2>2. CASE Command.kind = "hierarchical"
    <3>1. /\ LET sub == BuildHierarchicalCommand(Top.name, Top.args)[1]
             IN  frames' = Append([frames EXCEPT ![Len(frames)].at = "called"], Frame(sub.name, sub.args))
          /\ UNCHANGED <<commands, generated, noHooks, line, status, helpShown, commandsHistory>>
      BY <1>7, <2>2 DEF Execute
    <3>2. PICK name, args :
            frames' = Append([frames EXCEPT ![Len(frames)].at = "called"], Frame(name, args))
      BY <3>1
    <3>3. UNCHANGED <<status, commands, opened, closed>>
      BY <3>1 DEF commandsHistory
    <3> QED
      BY <2>1, <3>2, <3>3, CallKeeps
  <2>3. CASE /\ frames' = Append([frames EXCEPT ![Len(frames)].at = "called"], Frame(Command.callee, <<>>))
             /\ UNCHANGED <<commands, generated, noHooks, line, status, helpShown, opened, closed>>
    <3>1. PICK name, args :
            frames' = Append([frames EXCEPT ![Len(frames)].at = "called"], Frame(name, args))
      BY <2>3
    <3>2. UNCHANGED <<status, commands, opened, closed>>
      BY <2>3
    <3> QED
      BY <2>1, <3>1, <3>2, CallKeeps
  <2>4. CASE Goto("called") /\ UNCHANGED <<commands, generated, noHooks, line, status, helpShown, opened, closed>>
    BY <1>0, <2>1, <2>4, GotoKeeps
  <2>5. ASSUME NEW suppressHelp \in BOOLEAN, Throw(suppressHelp) PROVE CommandsIInv'
    BY <2>5, ExitKeeps
  <2> QED
    BY <1>7, <2>2, <2>3, <2>4, <2>5 DEF Execute
<1>8. CASE PostCommandAction
  <2>1. CASE Goto("posted") /\ UNCHANGED <<commands, generated, noHooks, line, status, helpShown, commandsHistory>>
    <3>1. status = "runs" /\ Top.at = "called" /\ UNCHANGED <<status, commands, opened, closed>>
      BY <1>8, <2>1 DEF PostCommandAction, At, commandsHistory
    <3> QED
      BY <1>0, <2>1, <3>1, GotoKeeps
  <2>2. ASSUME NEW suppressHelp \in BOOLEAN, Throw(suppressHelp) PROVE CommandsIInv'
    BY <2>2, ExitKeeps
  <2> QED
    BY <1>8, <2>1, <2>2 DEF PostCommandAction
<1>9. CASE Finish
  <2>1. status = "runs" /\ Top.at = "after" /\ Return /\ commands' = Front(commands) /\ UNCHANGED <<opened, closed>>
    BY <1>9 DEF Finish, At, commandsHistory
  <2> QED
    BY <2>1, ReturnKeeps
<1>10. CASE UNCHANGED commandsVars
  <2>1. UNCHANGED <<frames, commands, opened, closed, status>>
    BY <1>10 DEF commandsVars, commandsHistory
  <2> QED
    BY <2>1, UnchangedKeeps
<1> QED
  BY <1>1, <1>2, <1>3, <1>4, <1>5, <1>6, <1>7, <1>8, <1>9, <1>10, StartKeeps, BeforeKeeps, AfterKeeps, RunHookKeeps
     DEF CommandsNext

LEMMA CommandsSurround == CommandsIInv => HooksSurround
<1> SUFFICES ASSUME CommandsIInv PROVE HooksSurround
  OBVIOUS
<1>1. /\ Len(frames) \in Nat /\ Len(commands) \in Nat
      /\ DOMAIN commands = 1 .. Len(commands) /\ DOMAIN closed = 1 .. Len(closed)
      /\ IsSequence(commands)
  BY Lengths DEF CommandsIInv, FramesShape
<1>2. Len(closed) <= Len(opened) /\ \A i \in DOMAIN closed : closed[i] = opened[Len(opened) + 1 - i]
  BY <1>1 DEF CommandsIInv, ClosedIsOpened
<1>3. ASSUME status = "runs"
      PROVE  commands = [i \in DOMAIN commands |-> [name |-> frames[i].name, args |-> frames[i].args]]
  <2>1. \A i \in 1 .. Len(commands) : commands[i] = [name |-> frames[i].name, args |-> frames[i].args]
    BY <1>3 DEF CommandsIInv, Counted
  <2>2. commands \in [1 .. Len(commands) -> Range(commands)]
    BY <1>1, LenProperties DEF IsSequence
  <2> QED
    BY <1>1, <2>1, <2>2
<1>4. status = "done" => commands = <<>> /\ Len(closed) = Len(opened)
  BY <1>1, SequenceIs DEF CommandsIInv
<1> QED
  BY <1>2, <1>3, <1>4 DEF HooksSurround

\* How many commands were begun, opened and closed follows from the innermost frame
\* (commands-service.ts: commands.push .. commands.pop around the hooks of each call).
THEOREM CommandsInvariant == CommandsSpec => []CommandsIInv
<1>1. CommandsIInv /\ [CommandsNext]_commandsVars => CommandsIInv'
  BY CommandsStep
<1> QED
  BY CommandsBegin, <1>1, PTL DEF CommandsSpec

\* However deep commands execute one another, the stack of the service is what is being
\* executed, and after hooks begin in the reverse order of the before hooks.
THEOREM CommandsHooksSurround == CommandsSpec => []HooksSurround
BY CommandsInvariant, CommandsSurround, PTL

-----------------------------------------------------------------------------
(***************************************************************************)
(* What a line means.  The commands' names and words are sequences; the    *)
(* subcommand that is built is the one the line means, because the parts   *)
(* of the words that name a subcommand are the prefixes of the line that   *)
(* are names.                                                              *)
(***************************************************************************)
Names == Seq(Elements) \ {<<>>}

LEMMA RequiredIs ==
    /\ Len(Required) \in Nat /\ DOMAIN Required = 1 .. Len(Required)
    /\ \A i \in DOMAIN Required :
          /\ Required[i] \in Names /\ Required[i] \in Seq(Elements) /\ Required[i] # <<>>
          /\ Len(Required[i]) \in Nat /\ Len(Required[i]) >= 1 /\ DOMAIN Required[i] = 1 .. Len(Required[i])
          /\ Required[i][1] \in Elements /\ ~Required[i][1].star
          /\ Required[i] \in Range(Required) /\ Required[i] \in DOMAIN CommandOf
<1>1. Required \in Seq(Seq(Elements)) /\ DOMAIN CommandOf = Range(Required)
      /\ \A i \in DOMAIN Required : Required[i] # <<>> /\ ~Required[i][1].star
  BY CommandsAssumption
<1>2. Len(Required) \in Nat /\ DOMAIN Required = 1 .. Len(Required)
  BY <1>1, LenProperties
<1>3. ASSUME NEW i \in DOMAIN Required
      PROVE  /\ Required[i] \in Names /\ Required[i] \in Seq(Elements)
             /\ Len(Required[i]) \in Nat /\ Len(Required[i]) >= 1 /\ DOMAIN Required[i] = 1 .. Len(Required[i])
             /\ Required[i][1] \in Elements
             /\ Required[i] \in Range(Required)
  <2>1. Required[i] \in Seq(Elements) /\ Required[i] # <<>>
    BY <1>1
  <2>2. /\ Len(Required[i]) \in Nat /\ DOMAIN Required[i] = 1 .. Len(Required[i])
        /\ Required[i] \in [1 .. Len(Required[i]) -> Elements]
    BY <2>1, LenProperties
  <2>3. Len(Required[i]) # 0
    BY <2>1, EmptySeq
  <2>4. Required[i] \in Range(Required)
    BY DEF Range
  <2> QED
    BY <2>1, <2>2, <2>3, <2>4 DEF Names
<1> QED
  BY <1>1, <1>2, <1>3

\* The names that CommandOf has are the required ones, and what it has is typed.
LEMMA RegisteredIs ==
    ASSUME NEW n \in DOMAIN CommandOf
    PROVE  /\ n \in Names /\ \E i \in DOMAIN Required : n = Required[i]
           /\ CommandOf[n].kind \in {"plain", "calls"}
           /\ CommandOf[n].params \in Seq(Parameters)
           /\ CommandOf[n].kind = "calls" => CommandOf[n].callee \in Names
           /\ SubCommands(n) = {}
<1>1. PICK i \in DOMAIN Required : n = Required[i]
  BY CommandsAssumption DEF Range
<1>2. SubCommands(n) = {}
  <2> SUFFICES ASSUME NEW j \in SubCommands(n) PROVE FALSE
    OBVIOUS
  <2>1. j \in DOMAIN Required /\ Len(Required[j]) > 1 /\ <<Required[j][1]>> = Required[i]
    BY <1>1 DEF SubCommands
  <2>2. Len(Required[j]) = 1
    BY <2>1, CommandsAssumption
  <2> QED
    BY <2>1, <2>2
<1> QED
  BY <1>1, <1>2, RequiredIs, CommandsAssumption DEF Names

\* A sequence without its first element, and a beginning or an end of one.
LEMMA PartsOf ==
    ASSUME NEW S, NEW s \in Seq(S), NEW m \in Nat, m <= Len(s)
    PROVE  /\ SubSeq(s, 1, m) \in Seq(S) /\ Len(SubSeq(s, 1, m)) = m /\ DOMAIN SubSeq(s, 1, m) = 1 .. m
           /\ \A i \in 1 .. m : SubSeq(s, 1, m)[i] = s[i]
           /\ SubSeq(s, m + 1, Len(s)) \in Seq(S) /\ Len(SubSeq(s, m + 1, Len(s))) = Len(s) - m
           /\ \A i \in 1 .. Len(s) - m : SubSeq(s, m + 1, Len(s))[i] = s[m + i]
<1>1. Len(s) \in Nat /\ \A i \in 1 .. Len(s) : s[i] \in S
  BY LenProperties
<1> DEFINE p == SubSeq(s, 1, m)
           q == SubSeq(s, m + 1, Len(s))
           n == Len(s)
<1>2. p \in Seq(S) /\ Len(p) = (IF 1 <= m THEN m - 1 + 1 ELSE 0) /\ \A i \in 1 .. m - 1 + 1 : p[i] = s[1 + i - 1]
  <2>1. \A i \in 1 .. m : s[i] \in S
    BY <1>1
  <2> QED
    BY <2>1, SubSeqProperties
<1>3. /\ q \in Seq(S) /\ Len(q) = (IF m + 1 <= n THEN n - (m + 1) + 1 ELSE 0)
      /\ \A i \in 1 .. n - (m + 1) + 1 : q[i] = s[m + 1 + i - 1]
  <2>1. (\A i \in m + 1 .. n : s[i] \in S) /\ m + 1 \in Int /\ n \in Int
    BY <1>1
  <2> HIDE DEF n
  <2>2. /\ SubSeq(s, m + 1, n) \in Seq(S) /\ Len(SubSeq(s, m + 1, n)) = (IF m + 1 <= n THEN n - (m + 1) + 1 ELSE 0)
        /\ \A i \in 1 .. n - (m + 1) + 1 : SubSeq(s, m + 1, n)[i] = s[m + 1 + i - 1]
    BY <2>1, SubSeqProperties
  <2> QED
    BY <2>2 DEF n
<1> HIDE DEF p, q
<1>4. n \in Nat /\ m <= n
  BY <1>1
<1> HIDE DEF n
<1>5. Len(p) = m /\ Len(q) = n - m
  <2> DEFINE a == Len(p)
             b == Len(q)
  <2>1. a = (IF 1 <= m THEN m - 1 + 1 ELSE 0) /\ b = (IF m + 1 <= n THEN n - (m + 1) + 1 ELSE 0)
    BY <1>2, <1>3
  <2> HIDE DEF a, b
  <2>2. a = m /\ b = n - m
    BY <1>4, <2>1
  <2> QED
    BY <2>2 DEF a, b
<1>6. ASSUME NEW i \in 1 .. m PROVE p[i] = s[i]
  <2>1. i \in 1 .. m - 1 + 1 /\ 1 + i - 1 = i
    OBVIOUS
  <2> QED
    BY <1>2, <2>1
<1>7. ASSUME NEW i \in 1 .. n - m PROVE q[i] = s[m + i]
  <2>1. i \in 1 .. n - (m + 1) + 1 /\ m + 1 + i - 1 = m + i
    BY <1>4
  <2> QED
    BY <1>3, <2>1
<1>8. DOMAIN p = 1 .. m
  BY <1>2, <1>5, LenProperties
<1> QED
  BY <1>2, <1>3, <1>5, <1>6, <1>7, <1>8 DEF n, p, q

LEMMA TailOf ==
    ASSUME NEW S, NEW s \in Seq(S), s # <<>>
    PROVE  /\ Tail(s) \in Seq(S) /\ Len(Tail(s)) = Len(s) - 1 /\ DOMAIN Tail(s) = 1 .. Len(s) - 1
           /\ \A i \in 1 .. Len(s) - 1 : Tail(s)[i] = s[i + 1]
<1>1. Tail(s) \in Seq(S) /\ Len(Tail(s)) = Len(s) - 1 /\ \A i \in 1 .. Len(Tail(s)) : Tail(s)[i] = s[i + 1]
  BY HeadTailProperties
<1>2. DOMAIN Tail(s) = 1 .. Len(Tail(s))
  BY <1>1, LenProperties
<1> QED
  BY <1>1, <1>2


-----------------------------------------------------------------------------
(***************************************************************************)
(* The arguments.  Each goes to one parameter that accepts it and was free *)
(* until then, first for the mandatory parameters and then for the         *)
(* arguments that remain.                                                  *)
(***************************************************************************)

\* The states of the two loops.
Assignments(params, args) == [ok : BOOLEAN, to : [1 .. Len(args) -> 0 .. Len(params)]]

\* No two arguments are of one parameter, and each is accepted by its own.
Sound(params, args, to) ==
    /\ \A i \in 1 .. Len(args) : to[i] # 0 => args[i] \in params[to[i]].accepts
    /\ \A i, j \in 1 .. Len(args) : to[i] = to[j] /\ to[i] # 0 => i = j

\* One more argument is given a parameter that was free.
LEMMA OneMoreAssigned ==
    ASSUME NEW params \in Seq(Parameters), NEW args \in Seq(Words),
           NEW t \in Assignments(params, args), NEW i \in 1 .. Len(args), NEW k \in 1 .. Len(params)
    PROVE  LET u == [t.to EXCEPT ![i] = k]
           IN  /\ [ok |-> TRUE, to |-> u] \in Assignments(params, args)
               /\ u[i] = k /\ \A j \in 1 .. Len(args) : j # i => u[j] = t.to[j]
               /\ ( /\ Sound(params, args, t.to) /\ args[i] \in params[k].accepts
                    /\ \A j \in 1 .. Len(args) : t.to[j] # k )
                  => Sound(params, args, u)
<1> DEFINE A == Len(args)
           P == Len(params)
           to == t.to
           u == [to EXCEPT ![i] = k]
<1>1. to \in [1 .. A -> 0 .. P] /\ A \in Nat /\ P \in Nat
  BY DEF Assignments
<1>2. u \in [1 .. A -> 0 .. P] /\ u[i] = k /\ \A j \in 1 .. A : j # i => u[j] = to[j]
  <2>1. k \in 0 .. P /\ i \in 1 .. A
    BY <1>1
  <2> HIDE DEF A, P, to
  <2> QED
    BY <1>1, <2>1
<1>3. [ok |-> TRUE, to |-> u] \in Assignments(params, args)
  BY <1>2 DEF Assignments
<1>4. ASSUME Sound(params, args, to), args[i] \in params[k].accepts, \A j \in 1 .. A : to[j] # k
      PROVE  Sound(params, args, u)
  <2> HIDE DEF u
  <2>1. ASSUME NEW j \in 1 .. A, u[j] # 0 PROVE args[j] \in params[u[j]].accepts
    BY <1>2, <1>4, <2>1 DEF Sound
  <2>2. ASSUME NEW j \in 1 .. A, NEW l \in 1 .. A, u[j] = u[l], u[j] # 0 PROVE j = l
    BY <1>2, <1>4, <2>2 DEF Sound
  <2> QED
    BY <2>1, <2>2 DEF Sound
<1> QED
  BY <1>2, <1>3, <1>4

\* One round of the first loop.
LEMMA TakesMandatory ==
    ASSUME NEW params \in Seq(Parameters), NEW args \in Seq(Words),
           NEW t \in Assignments(params, args), NEW k \in 1 .. Len(params)
    PROVE  LET u == TakeMandatory(params, args, t, k)
           IN  /\ u \in Assignments(params, args)
               /\ u.ok /\ ~params[k].mandatory => u = t
               /\ u.ok /\ params[k].mandatory =>
                    /\ t.ok
                    /\ \E i \in 1 .. Len(args) :
                          /\ u.to[i] = k /\ t.to[i] = 0 /\ args[i] \in params[k].accepts
                          /\ \A j \in 1 .. Len(args) : j # i => u.to[j] = t.to[j]
                    /\ (Sound(params, args, t.to) /\ \A j \in 1 .. Len(args) : t.to[j] # k)
                         => Sound(params, args, u.to)
<1> DEFINE fits == {i \in DOMAIN args : t.to[i] = 0 /\ args[i] \in params[k].accepts}
           u == TakeMandatory(params, args, t, k)
<1>1. DOMAIN args = 1 .. Len(args) /\ fits \in SUBSET Nat
  OBVIOUS
<1>2. CASE ~params[k].mandatory
  BY <1>2 DEF TakeMandatory
<1>3. CASE params[k].mandatory /\ t.ok /\ fits # {} /\ args[Min(fits)] # EmptyWord
  <2>1. Min(fits) \in fits
    <3> HIDE DEF fits
    <3> QED
      BY <1>1, <1>3, SmallestNumber
  <2>2. u = [ok |-> TRUE, to |-> [t.to EXCEPT ![Min(fits)] = k]]
    BY <1>3 DEF TakeMandatory
  <2>3. PICK i \in 1 .. Len(args) : i = Min(fits) /\ t.to[i] = 0 /\ args[i] \in params[k].accepts
    BY <1>1, <2>1
  <2>4. u = [ok |-> TRUE, to |-> [t.to EXCEPT ![i] = k]]
    BY <2>2, <2>3
  <2> HIDE DEF fits, u
  <2> DEFINE v == [t.to EXCEPT ![i] = k]
  <2>5. /\ [ok |-> TRUE, to |-> v] \in Assignments(params, args)
        /\ v[i] = k /\ \A j \in 1 .. Len(args) : j # i => v[j] = t.to[j]
        /\ ( /\ Sound(params, args, t.to) /\ args[i] \in params[k].accepts
             /\ \A j \in 1 .. Len(args) : t.to[j] # k )
           => Sound(params, args, v)
    BY OneMoreAssigned
  <2>6. u = [ok |-> TRUE, to |-> v]
    BY <2>4
  <2> HIDE DEF v
  <2>7. u.to = v /\ u.ok
    BY <2>6
  <2>8. u \in Assignments(params, args)
    BY <2>5, <2>6
  <2> QED
    BY <1>3, <2>3, <2>5, <2>7, <2>8 DEF u
<1>4. CASE params[k].mandatory /\ ~(t.ok /\ fits # {} /\ args[Min(fits)] # EmptyWord)
  <2>1. u = [ok |-> FALSE, to |-> t.to]
    BY <1>4 DEF TakeMandatory
  <2>2. u \in Assignments(params, args) /\ u.ok = FALSE
    BY <2>1 DEF Assignments
  <2> HIDE DEF u
  <2> QED
    BY <2>2 DEF u
<1> QED
  BY <1>2, <1>3, <1>4


\* One round of the second loop.
LEMMA TakesAllowed ==
    ASSUME NEW params \in Seq(Parameters), NEW args \in Seq(Words),
           NEW t \in Assignments(params, args), NEW i \in 1 .. Len(args)
    PROVE  LET u == TakeAllowed(params, args, t, i)
           IN  /\ u \in Assignments(params, args)
               /\ u.ok =>
                    /\ t.ok /\ u.to[i] # 0
                    /\ \A j \in 1 .. Len(args) : t.to[j] # 0 => u.to[j] = t.to[j]
                    /\ Sound(params, args, t.to) => Sound(params, args, u.to)
<1> DEFINE takes == {k \in DOMAIN params \ Mandatory(params) :
                       k \notin Range(t.to) /\ args[i] \in params[k].accepts}
           u == TakeAllowed(params, args, t, i)
<1>1. DOMAIN params = 1 .. Len(params) /\ takes \in SUBSET Nat /\ DOMAIN t.to = 1 .. Len(args)
  BY DEF Assignments
<1>2. CASE t.to[i] # 0
  BY <1>2 DEF TakeAllowed
<1>3. CASE t.to[i] = 0 /\ t.ok /\ takes # {}
  <2>1. Min(takes) \in takes
    <3> HIDE DEF takes
    <3> QED
      BY <1>1, <1>3, SmallestNumber
  <2>2. u = [ok |-> TRUE, to |-> [t.to EXCEPT ![i] = Min(takes)]]
    BY <1>3 DEF TakeAllowed
  <2>3. PICK k \in 1 .. Len(params) : k = Min(takes) /\ k \notin Range(t.to) /\ args[i] \in params[k].accepts
    BY <1>1, <2>1
  <2>4. u = [ok |-> TRUE, to |-> [t.to EXCEPT ![i] = k]]
    BY <2>2, <2>3
  <2> HIDE DEF takes, u
  <2> DEFINE v == [t.to EXCEPT ![i] = k]
  <2>5. /\ [ok |-> TRUE, to |-> v] \in Assignments(params, args)
        /\ v[i] = k /\ \A j \in 1 .. Len(args) : j # i => v[j] = t.to[j]
        /\ ( /\ Sound(params, args, t.to) /\ args[i] \in params[k].accepts
             /\ \A j \in 1 .. Len(args) : t.to[j] # k )
           => Sound(params, args, v)
    BY OneMoreAssigned
  <2>6. u = [ok |-> TRUE, to |-> v]
    BY <2>4
  <2> HIDE DEF v
  <2>7. u.to = v /\ u.ok
    BY <2>6
  <2>8. u \in Assignments(params, args)
    BY <2>5, <2>6
  <2>9. \A j \in 1 .. Len(args) : t.to[j] # k
    BY <1>1, <2>3 DEF Range
  <2>10. v[i] # 0
    BY <2>5
  <2> QED
    BY <1>3, <2>3, <2>5, <2>7, <2>8, <2>9, <2>10 DEF u
<1>4. CASE t.to[i] = 0 /\ ~(t.ok /\ takes # {})
  <2>1. u = [ok |-> FALSE, to |-> t.to]
    BY <1>4 DEF TakeAllowed
  <2>2. u \in Assignments(params, args) /\ u.ok = FALSE
    BY <2>1 DEF Assignments
  <2> HIDE DEF u
  <2> QED
    BY <2>2 DEF u
<1> QED
  BY <1>2, <1>3, <1>4

\* After the first loop every mandatory parameter has its argument.
LEMMA MandatoryAreGiven ==
    ASSUME NEW params \in Seq(Parameters), NEW args \in Seq(Words)
    PROVE  LET t == ValidateMandatoryParams(params, args)
           IN  /\ t \in Assignments(params, args)
               /\ t.ok => /\ Sound(params, args, t.to)
                          /\ \A k \in 1 .. Len(params) :
                                params[k].mandatory => \E i \in 1 .. Len(args) : t.to[i] = k
<1> DEFINE N == Len(params)
           S == Assignments(params, args)
           base == [ok |-> Cardinality(Mandatory(params)) <= Len(args), to |-> [i \in DOMAIN args |-> 0]]
           step == [k \in 1 .. N |-> [t \in S |-> TakeMandatory(params, args, t, k)]]
           IsLoop(m) == m = [k \in 0 .. N |-> IF k = 0 THEN base ELSE TakeMandatory(params, args, m[k - 1], k)]
<1>1. N \in Nat /\ base \in S /\ base.to = [i \in 1 .. Len(args) |-> 0]
  <2>1. DOMAIN args = 1 .. Len(args) /\ N \in Nat /\ 0 \in 0 .. N
    OBVIOUS
  <2> HIDE DEF N
  <2>2. [i \in 1 .. Len(args) |-> 0] \in [1 .. Len(args) -> 0 .. N]
    BY <2>1
  <2> QED
    BY <2>1, <2>2 DEF Assignments, N
<1>2. \A k \in 1 .. N : \A t \in S : TakeMandatory(params, args, t, k) \in S
  BY TakesMandatory
<1>3. PICK m \in [0 .. N -> S] : m[0] = base /\ \A k \in 1 .. N : m[k] = step[k][m[k - 1]]
  <2>1. step \in [1 .. N -> [S -> S]]
    <3> HIDE DEF N, S
    <3> QED
      BY <1>2
  <2>2. LoopOn(N, S, base, step)
    <3> HIDE DEF N, S, base, step
    <3> QED
      BY <1>1, <2>1 DEF LoopOn
  <2> HIDE DEF N, step, S, base
  <2> QED
    BY ONLY <2>2, LoopExists
<1>4. IsLoop(m)
  <2>1. ASSUME NEW k \in 1 .. N
        PROVE  step[k][m[k - 1]] = TakeMandatory(params, args, m[k - 1], k)
    <3>1. m[k - 1] \in S
      <4>1. k - 1 \in 0 .. N
        BY <1>1
      <4> HIDE DEF S
      <4> QED
        BY <4>1
    <3> HIDE DEF S, N
    <3> QED
      BY <3>1
  <2> HIDE DEF N, step, S, base
  <2>2. \A k \in 0 .. N : k # 0 => k \in 1 .. N
    BY <1>1
  <2>3. \A k \in 0 .. N : m[k] = IF k = 0 THEN base ELSE TakeMandatory(params, args, m[k - 1], k)
    BY <1>3, <2>1, <2>2
  <2> QED
    BY <1>3, <2>3
<1> DEFINE g == CHOOSE f : IsLoop(f)
<1>5. ValidateMandatoryParams(params, args) = g[N]
  BY DEF ValidateMandatoryParams
<1>6. IsLoop(g)
  <2> HIDE DEF IsLoop
  <2> QED
    BY <1>4
<1> HIDE DEF g
<1>7. 0 \in 0 .. N /\ \A k \in 1 .. N : k \in 0 .. N /\ k # 0
  BY <1>1
<1>8. g[0] = base /\ \A k \in 1 .. N : g[k] = TakeMandatory(params, args, g[k - 1], k)
  <2> HIDE DEF N, S, base
  <2> QED
    BY <1>6, <1>7
<1> DEFINE Given(t, n) ==
             /\ Sound(params, args, t.to)
             /\ \A i \in 1 .. Len(args) : t.to[i] <= n
             /\ \A k \in 1 .. n : params[k].mandatory => \E i \in 1 .. Len(args) : t.to[i] = k
           P == {n \in 0 .. N : g[n] \in S /\ (g[n].ok => Given(g[n], n))}
<1>9. 0 \in P
  <2>1. g[0] \in S /\ 0 \in 0 .. N
    BY <1>1, <1>8
  <2>2. \A i \in 1 .. Len(args) : g[0].to[i] = 0
    <3> HIDE DEF base
    <3> QED
      BY <1>1, <1>8
  <2>3. Given(g[0], 0)
    BY <2>2 DEF Sound
  <2> HIDE DEF Given, S, N
  <2> QED
    BY <2>1, <2>3
<1>10. ASSUME NEW n \in 1 .. N, n - 1 \in P PROVE n \in P
  <2> DEFINE t == g[n - 1]
             u == g[n]
  <2>1. t \in S /\ (t.ok => Given(t, n - 1))
    BY <1>10
  <2>2. u = TakeMandatory(params, args, t, n)
    BY <1>8
  <2> HIDE DEF t, u, Given
  <2>3. /\ u \in S
        /\ u.ok /\ ~params[n].mandatory => u = t
        /\ u.ok /\ params[n].mandatory =>
             /\ t.ok
             /\ \E i \in 1 .. Len(args) :
                   /\ u.to[i] = n /\ t.to[i] = 0 /\ args[i] \in params[n].accepts
                   /\ \A j \in 1 .. Len(args) : j # i => u.to[j] = t.to[j]
             /\ (Sound(params, args, t.to) /\ \A j \in 1 .. Len(args) : t.to[j] # n)
                  => Sound(params, args, u.to)
    BY <2>1, <2>2, TakesMandatory, SMTT(30)
  <2>4. \A j \in 1 .. Len(args) : t.to[j] \in Nat
    BY <2>1 DEF Assignments
  <2>5. ASSUME u.ok PROVE Given(u, n)
    <3>1. CASE ~params[n].mandatory
      <4>1. u = t /\ Given(t, n - 1)
        BY <2>1, <2>3, <2>5, <3>1
      <4>2. \A i \in 1 .. Len(args) : t.to[i] <= n
        BY <1>1, <2>4, <4>1 DEF Given
      <4>3. \A k \in 1 .. n : k = n \/ k \in 1 .. n - 1
        BY <1>1
      <4> QED
        BY <3>1, <4>1, <4>2, <4>3 DEF Given
    <3>2. CASE params[n].mandatory
      <4>1. Given(t, n - 1)
        BY <2>1, <2>3, <2>5, <3>2
      <4>2. \A j \in 1 .. Len(args) : t.to[j] # n /\ t.to[j] <= n
        BY <1>1, <2>4, <4>1 DEF Given
      <4>3. Sound(params, args, u.to)
        BY <2>3, <2>5, <3>2, <4>1, <4>2 DEF Given
      <4>4. PICK i \in 1 .. Len(args) :
               /\ u.to[i] = n /\ t.to[i] = 0
               /\ \A j \in 1 .. Len(args) : j # i => u.to[j] = t.to[j]
        BY <2>3, <2>5, <3>2
      <4>5. \A j \in 1 .. Len(args) : u.to[j] <= n
        BY <1>1, <4>2, <4>4, SMTT(30)
      <4>6. ASSUME NEW k \in 1 .. n, params[k].mandatory PROVE \E j \in 1 .. Len(args) : u.to[j] = k
        <5>1. CASE k = n
          BY <4>4, <5>1
        <5>2. CASE k # n
          <6>1. k \in 1 .. n - 1 /\ k # 0
            BY <1>1, <5>2
          <6>2. PICK j \in 1 .. Len(args) : t.to[j] = k
            BY <4>1, <4>6, <6>1 DEF Given
          <6>3. j # i
            BY <4>4, <6>1, <6>2
          <6> QED
            BY <4>4, <6>2, <6>3
        <5> QED
          BY <5>1, <5>2
      <4> QED
        BY <4>3, <4>5, <4>6 DEF Given
    <3> QED
      BY <3>1, <3>2
  <2>6. n \in 0 .. N
    BY <1>1
  <2> QED
    BY <2>3, <2>5, <2>6 DEF u
<1>11. N \in P
  <2> HIDE DEF P, N
  <2>1. \A n \in 0 .. N : n \in P
    BY <1>1, <1>9, <1>10, RoundAfterRound
  <2> QED
    BY <1>1, <2>1
<1> QED
  BY <1>5, <1>11


\* Arguments that are found valid fit the parameters one to one.
LEMMA ValidFit ==
    ASSUME NEW params \in Seq(Parameters), NEW args \in Seq(Words), ValidateCommandArguments(params, args)
    PROVE  Fits(args, params)
<1> DEFINE N == Len(args)
           S == Assignments(params, args)
           base == ValidateMandatoryParams(params, args)
           step == [i \in 1 .. N |-> [t \in S |-> TakeAllowed(params, args, t, i)]]
           IsLoop(m) == m = [i \in 0 .. N |-> IF i = 0 THEN ValidateMandatoryParams(params, args)
                                              ELSE TakeAllowed(params, args, m[i - 1], i)]
<1>1. /\ N \in Nat /\ base \in S
      /\ base.ok => /\ Sound(params, args, base.to)
                    /\ \A k \in 1 .. Len(params) : params[k].mandatory => \E i \in 1 .. N : base.to[i] = k
  BY MandatoryAreGiven
<1>2. \A i \in 1 .. N : \A t \in S : TakeAllowed(params, args, t, i) \in S
  BY TakesAllowed
<1>3. PICK m \in [0 .. N -> S] : m[0] = base /\ \A i \in 1 .. N : m[i] = step[i][m[i - 1]]
  <2>1. step \in [1 .. N -> [S -> S]]
    <3> HIDE DEF N, S
    <3> QED
      BY <1>2
  <2>2. LoopOn(N, S, base, step)
    <3> HIDE DEF N, S, base, step
    <3> QED
      BY <1>1, <2>1 DEF LoopOn
  <2> HIDE DEF N, step, S, base
  <2> QED
    BY ONLY <2>2, LoopExists
<1>4. IsLoop(m)
  <2>1. ASSUME NEW i \in 1 .. N
        PROVE  step[i][m[i - 1]] = TakeAllowed(params, args, m[i - 1], i)
    <3>1. m[i - 1] \in S
      <4>1. i - 1 \in 0 .. N
        BY <1>1
      <4> HIDE DEF S
      <4> QED
        BY <4>1
    <3> HIDE DEF S, N
    <3> QED
      BY <3>1
  <2> HIDE DEF N, step, S
  <2>2. \A i \in 0 .. N : i # 0 => i \in 1 .. N
    BY <1>1
  <2>3. \A i \in 0 .. N : m[i] = IF i = 0 THEN ValidateMandatoryParams(params, args)
                                 ELSE TakeAllowed(params, args, m[i - 1], i)
    BY <1>3, <2>1, <2>2
  <2> QED
    BY <1>3, <2>3
<1> DEFINE g == CHOOSE f : IsLoop(f)
<1>5. g[N].ok
  BY DEF ValidateCommandArguments
<1>6. IsLoop(g)
  <2> HIDE DEF IsLoop
  <2> QED
    BY <1>4
<1> HIDE DEF g
<1>7. 0 \in 0 .. N /\ \A i \in 1 .. N : i \in 0 .. N /\ i # 0
  BY <1>1
<1>8. g[0] = base /\ \A i \in 1 .. N : g[i] = TakeAllowed(params, args, g[i - 1], i)
  <2> HIDE DEF N, S
  <2> QED
    BY <1>6, <1>7
<1> HIDE DEF base
<1> DEFINE Gone(t, n) ==
             /\ Sound(params, args, t.to)
             /\ \A k \in 1 .. Len(params) : params[k].mandatory => \E i \in 1 .. N : t.to[i] = k
             /\ \A i \in 1 .. n : t.to[i] # 0
           P == {n \in 0 .. N : g[n] \in S /\ (g[n].ok => Gone(g[n], n))}
<1>9. 0 \in P
  BY <1>1, <1>8, SMTT(30)
<1>10. ASSUME NEW n \in 1 .. N, n - 1 \in P PROVE n \in P
  <2> DEFINE t == g[n - 1]
             u == g[n]
  <2>1. t \in S /\ (t.ok => Gone(t, n - 1))
    BY <1>10
  <2>2. u = TakeAllowed(params, args, t, n)
    BY <1>8
  <2> HIDE DEF t, u, Gone
  <2>3. /\ u \in S
        /\ u.ok =>
             /\ t.ok /\ u.to[n] # 0
             /\ \A j \in 1 .. N : t.to[j] # 0 => u.to[j] = t.to[j]
             /\ Sound(params, args, t.to) => Sound(params, args, u.to)
    BY <2>1, <2>2, TakesAllowed
  <2>4. ASSUME u.ok PROVE Gone(u, n)
    <3>1. Gone(t, n - 1)
      BY <2>1, <2>3, <2>4
    <3>2. Sound(params, args, u.to)
      BY <2>3, <2>4, <3>1 DEF Gone
    <3>3. ASSUME NEW k \in 1 .. Len(params), params[k].mandatory PROVE \E i \in 1 .. N : u.to[i] = k
      <4>1. PICK i \in 1 .. N : t.to[i] = k
        BY <3>1, <3>3 DEF Gone
      <4>2. k # 0
        OBVIOUS
      <4> QED
        BY <2>3, <2>4, <4>1, <4>2
    <3>4. ASSUME NEW i \in 1 .. n PROVE u.to[i] # 0
      <4>1. CASE i = n
        BY <2>3, <2>4, <4>1
      <4>2. CASE i # n
        <5>1. i \in 1 .. n - 1 /\ i \in 1 .. N
          BY <1>1, <4>2
        <5>2. t.to[i] # 0
          BY <3>1, <5>1 DEF Gone
        <5> QED
          BY <2>3, <2>4, <5>1, <5>2
      <4> QED
        BY <4>1, <4>2
    <3> QED
      BY <3>2, <3>3, <3>4 DEF Gone
  <2>5. n \in 0 .. N
    BY <1>1
  <2> QED
    BY <2>3, <2>4, <2>5 DEF u, t
<1>11. N \in P
  <2> HIDE DEF P, N
  <2>1. \A n \in 0 .. N : n \in P
    BY <1>1, <1>9, <1>10, RoundAfterRound
  <2> QED
    BY <1>1, <2>1
<1> DEFINE to == g[N].to
<1>12. /\ to \in [1 .. N -> 0 .. Len(params)] /\ Sound(params, args, to)
       /\ \A k \in 1 .. Len(params) : params[k].mandatory => \E i \in 1 .. N : to[i] = k
       /\ \A i \in 1 .. N : to[i] # 0
  BY <1>5, <1>11 DEF Assignments
<1> HIDE DEF to
<1>13. DOMAIN args = 1 .. N /\ DOMAIN params = 1 .. Len(params) /\ Len(params) \in Nat
  OBVIOUS
<1>14. to \in [DOMAIN args -> DOMAIN params]
  <2>1. \A i \in 1 .. N : to[i] \in 1 .. Len(params)
    BY <1>12, <1>13
  <2> HIDE DEF N
  <2> QED
    BY <1>12, <1>13, <2>1
<1>15. IsInjective(to) /\ \A i \in DOMAIN args : args[i] \in params[to[i]].accepts
  BY <1>12, <1>13 DEF IsInjective, Sound
<1>16. \A k \in DOMAIN params : params[k].mandatory => k \in Range(to)
  BY <1>12, <1>13 DEF Range
<1> QED
  BY <1>14, <1>15, <1>16 DEF Fits


-----------------------------------------------------------------------------
(***************************************************************************)
(* The subcommand that is built.  The parts of the words that name one are *)
(* the beginnings of the line that are full names.                         *)
(***************************************************************************)

\* The words of a name and the lower-case forms of words.
LEMMA WordsOf ==
    ASSUME NEW n \in Seq(Elements)
    PROVE  /\ PlainWords(n) \in Seq(Words) /\ Len(PlainWords(n)) = Len(n)
           /\ \A i \in 1 .. Len(n) : PlainWords(n)[i] = n[i].word /\ n[i] \in Elements /\ n[i].word \in Words
<1>1. Len(n) \in Nat /\ DOMAIN n = 1 .. Len(n) /\ \A i \in 1 .. Len(n) : n[i] \in Elements
  BY LenProperties
<1>2. \A i \in 1 .. Len(n) : n[i].word \in Words
  BY <1>1 DEF Elements
<1>3. PlainWords(n) \in [1 .. Len(n) -> Words] /\ \A i \in 1 .. Len(n) : PlainWords(n)[i] = n[i].word
  BY <1>1, <1>2 DEF PlainWords
<1>4. PlainWords(n) \in Seq(Words)
  BY <1>1, <1>3, IsASeq
<1>5. Len(PlainWords(n)) = Len(n)
  BY <1>1, <1>3, <1>4, LenProperties
<1> QED
  BY <1>1, <1>2, <1>3, <1>4, <1>5

LEMMA LowerCaseOf ==
    ASSUME NEW args \in Seq(Words)
    PROVE  /\ LowerCase(args) \in Seq(Words) /\ Len(LowerCase(args)) = Len(args)
           /\ \A i \in 1 .. Len(args) : LowerCase(args)[i] = Lower[args[i]] /\ Lower[args[i]] \in Words
<1>1. Len(args) \in Nat /\ DOMAIN args = 1 .. Len(args) /\ \A i \in 1 .. Len(args) : args[i] \in Words
  BY LenProperties
<1>2. \A i \in 1 .. Len(args) : Lower[args[i]] \in Words
  BY <1>1, CommandsAssumption
<1>3. LowerCase(args) \in [1 .. Len(args) -> Words] /\ \A i \in 1 .. Len(args) : LowerCase(args)[i] = Lower[args[i]]
  BY <1>1, <1>2 DEF LowerCase
<1>4. LowerCase(args) \in Seq(Words)
  BY <1>1, <1>3, IsASeq
<1>5. Len(LowerCase(args)) = Len(args)
  BY <1>1, <1>3, <1>4, LenProperties
<1> QED
  BY <1>2, <1>3, <1>4, <1>5

\* A prefix is as the sequence where it is.
LEMMA PrefixIs ==
    ASSUME NEW S, NEW s \in Seq(S), NEW t \in Seq(S)
    PROVE  IsPrefix(s, t) <=> Len(s) <= Len(t) /\ \A i \in 1 .. Len(s) : s[i] = t[i]
<1>1. Len(s) \in Nat /\ Len(t) \in Nat
  BY LenProperties
<1>2. CASE ~ (Len(s) <= Len(t))
  BY <1>2 DEF IsPrefix
<1>3. CASE Len(s) <= Len(t)
  <2> DEFINE m == Len(s)
             p == SubSeq(s, 1, m)
             q == SubSeq(t, 1, m)
  <2>1. /\ p \in Seq(S) /\ Len(p) = m /\ \A i \in 1 .. m : p[i] = s[i]
        /\ q \in Seq(S) /\ Len(q) = m /\ \A i \in 1 .. m : q[i] = t[i]
    <3>1. m \in Nat /\ m <= Len(s) /\ m <= Len(t)
      BY <1>1, <1>3
    <3> HIDE DEF m
    <3> QED
      BY <3>1, PartsOf
  <2>2. IsPrefix(s, t) <=> p = q
    BY <1>3 DEF IsPrefix
  <2> HIDE DEF p, q
  <2>3. p = q <=> \A i \in 1 .. m : p[i] = q[i]
    <3>1. (Len(p) = Len(q) /\ \A i \in 1 .. Len(p) : p[i] = q[i]) => p = q
      BY <2>1, SeqEqual
    <3> QED
      BY <2>1, <3>1
  <2> QED
    BY <1>3, <2>1, <2>2, <2>3
<1> QED
  BY <1>2, <1>3

\* The words that are not of a set are words.
LEMMA DifferenceIs ==
    ASSUME NEW args \in Seq(Words), NEW W
    PROVE  Difference(args, W) \in Seq(Words)
<1> DEFINE N == Len(args)
           S == Seq(Words)
           base == <<>>
           step == [n \in 1 .. N |-> [v \in S |-> IF args[n] \in W THEN v ELSE Append(v, args[n])]]
           IsLoop(m) == m = [n \in 0 .. N |-> IF n = 0 THEN <<>>
                                              ELSE IF args[n] \in W THEN m[n - 1]
                                              ELSE Append(m[n - 1], args[n])]
<1>1. N \in Nat /\ base \in S /\ \A n \in 1 .. N : args[n] \in Words
  BY EmptySeq, LenProperties
<1>2. \A n \in 1 .. N : \A v \in S : (IF args[n] \in W THEN v ELSE Append(v, args[n])) \in S
  BY <1>1, AppendProperties
<1>3. PICK m \in [0 .. N -> S] : m[0] = base /\ \A n \in 1 .. N : m[n] = step[n][m[n - 1]]
  <2>1. step \in [1 .. N -> [S -> S]]
    <3> HIDE DEF N, S
    <3> QED
      BY <1>2
  <2>2. LoopOn(N, S, base, step)
    <3> HIDE DEF N, S, base, step
    <3> QED
      BY <1>1, <2>1 DEF LoopOn
  <2> HIDE DEF N, step, S, base
  <2> QED
    BY ONLY <2>2, LoopExists
<1>4. IsLoop(m)
  <2>1. ASSUME NEW n \in 1 .. N
        PROVE  step[n][m[n - 1]] = IF args[n] \in W THEN m[n - 1] ELSE Append(m[n - 1], args[n])
    <3>1. m[n - 1] \in S
      <4>1. n - 1 \in 0 .. N
        BY <1>1
      <4> HIDE DEF S
      <4> QED
        BY <4>1
    <3> HIDE DEF S, N
    <3> QED
      BY <3>1
  <2> HIDE DEF N, step, S
  <2>2. \A n \in 0 .. N : n # 0 => n \in 1 .. N
    BY <1>1
  <2>3. \A n \in 0 .. N : m[n] = IF n = 0 THEN <<>>
                                 ELSE IF args[n] \in W THEN m[n - 1]
                                 ELSE Append(m[n - 1], args[n])
    BY <1>3, <2>1, <2>2
  <2> QED
    BY <1>3, <2>3
<1> DEFINE g == CHOOSE f : IsLoop(f)
<1>5. Difference(args, W) = g[N]
  BY DEF Difference
<1>6. IsLoop(g)
  <2> HIDE DEF IsLoop
  <2> QED
    BY <1>4
<1> HIDE DEF g
<1>7. 0 \in 0 .. N /\ \A n \in 1 .. N : n \in 0 .. N /\ n # 0
  BY <1>1
<1>8. g[0] = <<>> /\ \A n \in 1 .. N : g[n] = IF args[n] \in W THEN g[n - 1] ELSE Append(g[n - 1], args[n])
  <2> HIDE DEF N, S
  <2> QED
    BY <1>6, <1>7
<1> DEFINE P == {n \in 0 .. N : g[n] \in S}
<1>9. 0 \in P
  <2>1. g[0] \in S
    BY <1>8, EmptySeq
  <2> HIDE DEF N, S
  <2> QED
    BY <1>7, <2>1
<1>10. ASSUME NEW n \in 1 .. N, n - 1 \in P PROVE n \in P
  BY <1>2, <1>7, <1>8, <1>10
<1>11. N \in P
  <2> HIDE DEF P, N
  <2>1. \A n \in 0 .. N : n \in P
    BY <1>1, <1>9, <1>10, RoundAfterRound
  <2> QED
    BY <1>1, <2>1
<1> QED
  BY <1>5, <1>11


\* Which subcommands a part of the words names, as the elements of the full name.
LEMMA NamedIs ==
    ASSUME NEW parent, NEW args \in Seq(Words), NEW k \in 1 .. Len(args), NEW i \in SubCommands(parent)
    PROVE  i \in Named(parent, args, k)
             <=> /\ Len(Required[i]) = k + 1
                 /\ \A j \in 2 .. k + 1 : Required[i][j].word = Lower[args[j - 1]]
                 /\ \A j \in 3 .. k + 1 : ~Required[i][j].star
<1> DEFINE n == Required[i]
           t == Tail(n)
           s == PlainWords(t)
           p == SubSeq(LowerCase(args), 1, k)
<1>1. i \in DOMAIN Required /\ n \in Seq(Elements) /\ n # <<>> /\ Len(n) \in Nat /\ k \in Nat /\ k <= Len(args)
  BY RequiredIs, LenProperties DEF SubCommands
<1> HIDE DEF n
<1>2. /\ t \in Seq(Elements) /\ Len(t) = Len(n) - 1 /\ DOMAIN t = 1 .. Len(n) - 1
      /\ \A j \in 1 .. Len(n) - 1 : t[j] = n[j + 1]
  BY <1>1, TailOf
<1> HIDE DEF t
<1>3. s \in Seq(Words) /\ Len(s) = Len(n) - 1 /\ \A j \in 1 .. Len(n) - 1 : s[j] = n[j + 1].word
  BY <1>2, WordsOf
<1>4. p \in Seq(Words) /\ Len(p) = k /\ \A j \in 1 .. k : p[j] = Lower[args[j]]
  <2> DEFINE l == LowerCase(args)
  <2>1. l \in Seq(Words) /\ Len(l) = Len(args) /\ \A j \in 1 .. Len(args) : l[j] = Lower[args[j]]
    BY LowerCaseOf
  <2> HIDE DEF l
  <2>2. /\ SubSeq(l, 1, k) \in Seq(Words) /\ Len(SubSeq(l, 1, k)) = k
        /\ \A j \in 1 .. k : SubSeq(l, 1, k)[j] = l[j]
    BY <1>1, <2>1, PartsOf
  <2>3. \A j \in 1 .. k : j \in 1 .. Len(args)
    BY <1>1, LenProperties
  <2> QED
    BY <2>1, <2>2, <2>3 DEF l
<1> HIDE DEF s, p
<1>5. s = p <=> Len(n) = k + 1 /\ \A j \in 1 .. k : n[j + 1].word = Lower[args[j]]
  <2>1. ASSUME s = p PROVE Len(n) = k + 1 /\ \A j \in 1 .. k : n[j + 1].word = Lower[args[j]]
    <3>1. Len(n) - 1 = k
      BY <1>3, <1>4, <2>1
    <3> QED
      BY <1>1, <1>3, <1>4, <2>1, <3>1
  <2>2. ASSUME Len(n) = k + 1, \A j \in 1 .. k : n[j + 1].word = Lower[args[j]] PROVE s = p
    <3>1. Len(n) - 1 = k
      BY <1>1, <2>2
    <3>2. Len(s) = Len(p) /\ \A j \in 1 .. Len(s) : s[j] = p[j]
      BY <1>3, <1>4, <2>2, <3>1
    <3> QED
      BY <1>3, <1>4, <3>2, SeqEqual
  <2> QED
    BY <2>1, <2>2
<1>6. (\A j \in 1 .. k : n[j + 1].word = Lower[args[j]]) <=> (\A j \in 2 .. k + 1 : n[j].word = Lower[args[j - 1]])
  <2>1. ASSUME \A j \in 1 .. k : n[j + 1].word = Lower[args[j]], NEW j \in 2 .. k + 1
        PROVE  n[j].word = Lower[args[j - 1]]
    <3>1. j - 1 \in 1 .. k /\ (j - 1) + 1 = j
      BY <1>1
    <3>2. n[(j - 1) + 1].word = Lower[args[j - 1]]
      BY ONLY <2>1, <3>1
    <3> QED
      BY <3>1, <3>2
  <2>2. ASSUME \A j \in 2 .. k + 1 : n[j].word = Lower[args[j - 1]], NEW j \in 1 .. k
        PROVE  n[j + 1].word = Lower[args[j]]
    <3>1. j + 1 \in 2 .. k + 1 /\ (j + 1) - 1 = j
      BY <1>1
    <3>2. n[j + 1].word = Lower[args[(j + 1) - 1]]
      BY ONLY <2>2, <3>1
    <3> QED
      BY <3>1, <3>2
  <2> QED
    BY <2>1, <2>2
<1>7. ASSUME Len(n) = k + 1
      PROVE  (\A j \in 2 .. Len(t) : ~t[j].star) <=> (\A j \in 3 .. k + 1 : ~n[j].star)
  <2>1. Len(t) = k /\ \A j \in 2 .. k : t[j] = n[j + 1]
    BY <1>1, <1>2, <1>7
  <2>2. ASSUME \A j \in 2 .. k : ~t[j].star, NEW j \in 3 .. k + 1 PROVE ~n[j].star
    <3>1. j - 1 \in 2 .. k /\ (j - 1) + 1 = j
      BY <1>1
    <3>2. ~t[j - 1].star /\ t[j - 1] = n[(j - 1) + 1]
      BY ONLY <2>1, <2>2, <3>1
    <3> QED
      BY <3>1, <3>2
  <2>3. ASSUME \A j \in 3 .. k + 1 : ~n[j].star, NEW j \in 2 .. k PROVE ~t[j].star
    <3>1. j + 1 \in 3 .. k + 1
      BY <1>1
    <3> QED
      BY <2>1, <2>3, <3>1
  <2> QED
    BY <2>1, <2>2, <2>3
<1>8. i \in Named(parent, args, k) <=> s = p /\ \A j \in 2 .. Len(t) : ~t[j].star
  BY DEF Named, Matches, s, p, t, n
<1> QED
  BY <1>5, <1>6, <1>7, <1>8 DEF n


\* The words from the first on that is not empty are words.
LEMMA FromFirstIs ==
    ASSUME NEW args \in Seq(Words)
    PROVE  FromFirst(args) \in Seq(Words)
<1> DEFINE given == {i \in DOMAIN args : args[i] # EmptyWord}
<1>1. CASE given = {}
  <2>1. FromFirst(args) = <<>>
    BY <1>1 DEF FromFirst
  <2> QED
    BY <2>1
<1>2. CASE given # {}
  <2>1. DOMAIN args = 1 .. Len(args) /\ Len(args) \in Nat
    BY LenProperties
  <2>2. given \in SUBSET Nat
    BY <2>1
  <2>3. Min(given) \in given
    BY <1>2, <2>2, SmallestNumber
  <2> DEFINE m == Min(given) - 1
  <2>4. m \in Nat /\ m <= Len(args) /\ m + 1 = Min(given)
    BY <2>1, <2>3
  <2>5. FromFirst(args) = SubSeq(args, Min(given), Len(args))
    BY <1>2 DEF FromFirst
  <2> HIDE DEF given, m
  <2>6. SubSeq(args, m + 1, Len(args)) \in Seq(Words)
    BY <2>4, PartsOf
  <2> QED
    BY <2>4, <2>5, <2>6
<1> QED
  BY <1>1, <1>2

FoundParts(parent, args) == {k \in 1 .. Len(args) : Named(parent, args, k) # {}}

\* The subcommand is of the longest part that names one, else a default one, else there is none.
LEMMA BuildIs ==
    ASSUME NEW parent, NEW args \in Seq(Words)
    PROVE  LET b == BuildHierarchicalCommand(parent, args)
               words == FromFirst(args)
           IN  /\ FoundParts(parent, words) # {} =>
                    \E k \in FoundParts(parent, words) : \E i \in Named(parent, words, k) :
                        /\ \A m \in FoundParts(parent, words) : m <= k
                        /\ b = <<[name |-> Required[i], args |-> SubSeq(words, k + 1, Len(words))]>>
               /\ FoundParts(parent, words) = {} /\ DefaultCommands(parent) # {} =>
                    \E i \in DefaultCommands(parent) :
                        b = <<[name |-> Required[i], args |-> Difference(args, ItsWords(Required[i]))]>>
               /\ FoundParts(parent, words) = {} /\ DefaultCommands(parent) = {} => b = <<>>
<1> DEFINE words == FromFirst(args)
           F == {k \in DOMAIN words : Named(parent, words, k) # {}}
           D == DefaultCommands(parent)
           b == BuildHierarchicalCommand(parent, args)
<1>1. F = FoundParts(parent, words) /\ Len(words) \in Nat /\ FoundParts(parent, words) \in SUBSET (0 .. Len(words))
  <2>1. words \in Seq(Words)
    BY FromFirstIs
  <2> HIDE DEF words
  <2> QED
    BY <2>1 DEF FoundParts
<1>2. SubCommands(parent) \in SUBSET Nat
  BY RequiredIs DEF SubCommands
<1>3. CASE F # {}
  <2> DEFINE K == Max(F)
             N == Named(parent, words, K)
  <2>1. K \in F /\ \A m \in F : m <= K
    BY <1>1, <1>3, LargestNumber
  <2>2. N \in SUBSET Nat /\ N # {}
    BY <1>2, <2>1 DEF Named
  <2>3. b = <<[name |-> Required[Min(N)], args |-> SubSeq(words, K + 1, Len(words))]>>
    BY <1>3 DEF BuildHierarchicalCommand
  <2> HIDE DEF N
  <2>4. Min(N) \in N
    BY <2>2, SmallestNumber
  <2> HIDE DEF K, F, b, words
  <2>5. \E k \in F : \E i \in Named(parent, words, k) :
           /\ \A m \in F : m <= k
           /\ b = <<[name |-> Required[i], args |-> SubSeq(words, k + 1, Len(words))]>>
    BY <2>1, <2>3, <2>4 DEF N
  <2> QED
    BY <1>1, <1>3, <2>5 DEF b, words
<1>4. CASE F = {} /\ D # {}
  <2>1. D \in SUBSET Nat
    BY <1>2 DEF DefaultCommands
  <2>2. b = <<[name |-> Required[Min(D)], args |-> Difference(args, ItsWords(Required[Min(D)]))]>>
    BY <1>4 DEF BuildHierarchicalCommand
  <2> HIDE DEF D, F, b, words
  <2>3. Min(D) \in D
    BY <1>4, <2>1, SmallestNumber
  <2>4. \E i \in D : b = <<[name |-> Required[i], args |-> Difference(args, ItsWords(Required[i]))]>>
    BY <2>2, <2>3
  <2> QED
    BY <1>1, <1>4, <2>4 DEF b, D, words
<1>5. CASE F = {} /\ D = {}
  <2>1. b = <<>>
    BY <1>5 DEF BuildHierarchicalCommand
  <2> HIDE DEF D, F, b, words
  <2> QED
    BY <1>1, <1>5, <2>1 DEF b, D, words
<1> QED
  BY <1>3, <1>4, <1>5

\* What is built is one of the subcommands with words.
LEMMA BuiltIs ==
    ASSUME NEW parent, NEW args \in Seq(Words), BuildHierarchicalCommand(parent, args) # <<>>
    PROVE  \E i \in SubCommands(parent), a \in Seq(Words) :
               BuildHierarchicalCommand(parent, args) = <<[name |-> Required[i], args |-> a]>>
<1> DEFINE b == BuildHierarchicalCommand(parent, args)
           words == FromFirst(args)
<1>1. CASE FoundParts(parent, words) # {}
  <2>1. PICK k \in FoundParts(parent, words) : \E i \in Named(parent, words, k) :
           b = <<[name |-> Required[i], args |-> SubSeq(words, k + 1, Len(words))]>>
    BY <1>1, BuildIs
  <2>2. PICK i \in Named(parent, words, k) :
           b = <<[name |-> Required[i], args |-> SubSeq(words, k + 1, Len(words))]>>
    BY <2>1
  <2>3. i \in SubCommands(parent)
    BY DEF Named
  <2>4. SubSeq(words, k + 1, Len(words)) \in Seq(Words)
    <3>1. words \in Seq(Words)
      BY FromFirstIs
    <3> HIDE DEF words
    <3>2. k \in Nat /\ k <= Len(words)
      BY <3>1 DEF FoundParts
    <3> QED
      BY <3>1, <3>2, PartsOf
  <2> HIDE DEF b, words
  <2>5. \E j \in SubCommands(parent), a \in Seq(Words) : b = <<[name |-> Required[j], args |-> a]>>
    BY <2>2, <2>3, <2>4
  <2> QED
    BY <2>5 DEF b
<1>2. CASE FoundParts(parent, words) = {}
  <2>1. PICK i \in DefaultCommands(parent) :
           b = <<[name |-> Required[i], args |-> Difference(args, ItsWords(Required[i]))]>>
    BY <1>2, BuildIs
  <2>2. i \in SubCommands(parent) /\ Difference(args, ItsWords(Required[i])) \in Seq(Words)
    BY DifferenceIs DEF DefaultCommands
  <2> HIDE DEF b
  <2>3. \E j \in SubCommands(parent), a \in Seq(Words) : b = <<[name |-> Required[j], args |-> a]>>
    BY <2>1, <2>2
  <2> QED
    BY <2>3 DEF b
<1> QED
  BY <1>1, <1>2

\* A parent that has no subcommands has nothing built for it.
LEMMA NothingBuilt ==
    ASSUME NEW parent, NEW args \in Seq(Words), SubCommands(parent) = {}
    PROVE  BuildHierarchicalCommand(parent, args) = <<>>
<1> SUFFICES ASSUME BuildHierarchicalCommand(parent, args) # <<>> PROVE FALSE
  OBVIOUS
<1> QED
  BY BuiltIs

\* A subcommand has the first element of its parent, which is the parent's only one.
LEMMA SubCommandIs ==
    ASSUME NEW parent, NEW i \in SubCommands(parent)
    PROVE  /\ i \in DOMAIN Required /\ Len(Required[i]) >= 2 /\ Required[i] \in DOMAIN CommandOf
           /\ parent = <<Required[i][1]>> /\ Len(parent) = 1 /\ parent[1] = Required[i][1]
           /\ parent \in Names /\ parent \notin DOMAIN CommandOf
<1>1. /\ i \in DOMAIN Required /\ Len(Required[i]) > 1 /\ parent = <<Required[i][1]>>
      /\ Len(Required[i]) \in Nat /\ Required[i][1] \in Elements /\ Required[i] \in DOMAIN CommandOf
  BY RequiredIs DEF SubCommands
<1>2. Len(parent) = 1 /\ parent[1] = Required[i][1] /\ parent \in Seq(Elements) /\ parent # <<>>
  BY <1>1
<1>3. parent \notin DOMAIN CommandOf
  BY RegisteredIs
<1> QED
  BY <1>1, <1>2, <1>3 DEF Names


\* The words begin with the name, none of whose elements but the second is a default one.
Called(name, words) ==
    /\ IsPrefix(PlainWords(name), LowerCase(words))
    /\ \A k \in DOMAIN name : name[k].star => k = 2

LEMMA CalledIs ==
    ASSUME NEW words \in Seq(Words), NEW i \in DOMAIN Required
    PROVE  Called(Required[i], words)
             <=> /\ Len(Required[i]) <= Len(words)
                 /\ \A j \in 1 .. Len(Required[i]) : Required[i][j].word = Lower[words[j]]
                 /\ \A j \in 3 .. Len(Required[i]) : ~Required[i][j].star
<1> DEFINE n == Required[i]
           s == PlainWords(n)
           l == LowerCase(words)
<1>1. /\ n \in Seq(Elements) /\ Len(n) \in Nat /\ DOMAIN n = 1 .. Len(n) /\ ~n[1].star
  BY RequiredIs
<1> HIDE DEF n
<1>2. s \in Seq(Words) /\ Len(s) = Len(n) /\ \A j \in 1 .. Len(n) : s[j] = n[j].word
  BY <1>1, WordsOf
<1>3. l \in Seq(Words) /\ Len(l) = Len(words) /\ Len(words) \in Nat /\ \A j \in 1 .. Len(words) : l[j] = Lower[words[j]]
  BY LowerCaseOf, LenProperties
<1> HIDE DEF s, l
<1>4. IsPrefix(s, l) <=> Len(s) <= Len(l) /\ \A j \in 1 .. Len(s) : s[j] = l[j]
  BY <1>2, <1>3, PrefixIs
<1>5. ASSUME Len(n) <= Len(words)
      PROVE  (\A j \in 1 .. Len(s) : s[j] = l[j]) <=> (\A j \in 1 .. Len(n) : n[j].word = Lower[words[j]])
  <2>1. \A j \in 1 .. Len(n) : j \in 1 .. Len(words)
    BY <1>1, <1>3, <1>5
  <2> QED
    BY <1>2, <1>3, <2>1
<1>6. (\A k \in DOMAIN n : n[k].star => k = 2) <=> (\A j \in 3 .. Len(n) : ~n[j].star)
  <2>1. ASSUME NEW j \in 1 .. Len(n) PROVE j = 1 \/ j = 2 \/ j \in 3 .. Len(n)
    BY <1>1
  <2>2. \A j \in 3 .. Len(n) : j # 2 /\ j \in 1 .. Len(n)
    BY <1>1
  <2> QED
    BY <1>1, <2>1, <2>2
<1>7. Called(n, words) <=> IsPrefix(s, l) /\ \A k \in DOMAIN n : n[k].star => k = 2
  BY DEF Called, s, l
<1> QED
  BY <1>2, <1>3, <1>4, <1>5, <1>6, <1>7 DEF n

\* The subcommands of the first word of a line are the longer names that begin with it.
LEMMA SubCommandsOfWord ==
    ASSUME NEW w, NEW i \in DOMAIN Required
    PROVE  i \in SubCommands(<<El(w)>>) <=> Len(Required[i]) > 1 /\ Required[i][1].word = w
<1> DEFINE e == Required[i][1]
<1>1. e \in Elements /\ ~e.star
  BY RequiredIs
<1> HIDE DEF e
<1>2. e = [word |-> e.word, star |-> FALSE]
  BY <1>1 DEF Elements
<1>3. <<e>> = <<El(w)>> <=> e = El(w)
  <2>1. <<e>>[1] = e /\ <<El(w)>>[1] = El(w)
    OBVIOUS
  <2> QED
    BY <2>1
<1>4. e = El(w) <=> e.word = w
  BY <1>2 DEF El
<1> QED
  BY <1>3, <1>4 DEF SubCommands, e

\* A part of the words after the first names a subcommand when the line begins with its full name.
LEMMA NamedIsCalled ==
    ASSUME NEW words \in Seq(Words), words # <<>>, NEW k \in 1 .. Len(Tail(words)),
           NEW i \in SubCommands(<<El(Lower[words[1]])>>)
    PROVE  i \in Named(<<El(Lower[words[1]])>>, Tail(words), k)
             <=> Called(Required[i], words) /\ Len(Required[i]) = k + 1
<1> DEFINE n == Required[i]
           args == Tail(words)
           parent == <<El(Lower[words[1]])>>
<1>1. /\ args \in Seq(Words) /\ Len(args) = Len(words) - 1 /\ Len(words) \in Nat /\ Len(words) # 0
      /\ \A j \in 1 .. Len(words) - 1 : args[j] = words[j + 1]
  BY TailOf, LenProperties, EmptySeq
<1>2. i \in DOMAIN Required /\ n[1].word = Lower[words[1]] /\ Len(n) \in Nat
  <2>1. i \in DOMAIN Required
    BY SubCommandIs
  <2> QED
    BY <2>1, SubCommandsOfWord, RequiredIs
<1>3. Called(n, words) <=> /\ Len(n) <= Len(words)
                           /\ \A j \in 1 .. Len(n) : n[j].word = Lower[words[j]]
                           /\ \A j \in 3 .. Len(n) : ~n[j].star
  BY <1>2, CalledIs
<1>4. i \in Named(parent, args, k) <=> /\ Len(n) = k + 1
                                       /\ \A j \in 2 .. k + 1 : n[j].word = Lower[args[j - 1]]
                                       /\ \A j \in 3 .. k + 1 : ~n[j].star
  <2> HIDE DEF parent, args, n
  <2> QED
    BY <1>1, NamedIs DEF parent, args, n
<1> HIDE DEF parent, args, n
<1>5. k \in Nat /\ k + 1 <= Len(words)
  BY <1>1 DEF args
<1>6. ASSUME NEW j \in 2 .. k + 1 PROVE args[j - 1] = words[j]
  <2>1. j - 1 \in 1 .. Len(words) - 1 /\ (j - 1) + 1 = j
    BY <1>1, <1>5
  <2> QED
    BY <1>1, <2>1
<1>7. \A j \in 1 .. k + 1 : j = 1 \/ j \in 2 .. k + 1
  BY <1>5
<1>8. \A j \in 2 .. k + 1 : j \in 1 .. k + 1
  BY <1>5
<1>9. (\A j \in 1 .. k + 1 : n[j].word = Lower[words[j]]) <=> (\A j \in 2 .. k + 1 : n[j].word = Lower[args[j - 1]])
  BY <1>2, <1>6, <1>7, <1>8
<1>10. i \in Named(parent, args, k) <=> Called(n, words) /\ Len(n) = k + 1
  BY <1>3, <1>4, <1>5, <1>9
<1> QED
  BY <1>10 DEF parent, args, n


\* The full names a line begins with, and the default ones of its first word.
Beginnings(words) == {n \in Range(Required) : Called(n, words)}
Longest(words) == {n \in Beginnings(words) : \A m \in Beginnings(words) : Len(m) <= Len(n)}
DefaultsOf(words) == {n \in Range(Required) : IsDefault(n) /\ n[1].word = Lower[words[1]]}

LEMMA MeantIs ==
    ASSUME NEW words
    PROVE  LET longest == Longest(WithoutEmpty(words))
           IN  Meant(words) = IF (\E n \in longest : Len(n) > 1) \/ DefaultsOf(words) = {}
                              THEN longest ELSE DefaultsOf(words)
BY DEF Meant, Longest, Beginnings, DefaultsOf, Called

\* A line without its first empty words begins as the line does.
LEMMA WithoutEmptyIs ==
    ASSUME NEW words \in Seq(Words), words # <<>>
    PROVE  /\ WithoutEmpty(words) \in Seq(Words) /\ WithoutEmpty(words) # <<>>
           /\ WithoutEmpty(words)[1] = words[1] /\ Tail(WithoutEmpty(words)) = FromFirst(Tail(words))
<1> DEFINE t == FromFirst(Tail(words))
           h == <<words[1]>>
           s == h \o t
<1>1. Tail(words) \in Seq(Words) /\ words[1] \in Words
  BY TailOf, LenProperties, EmptySeq
<1>2. t \in Seq(Words) /\ h \in Seq(Words) /\ Len(h) = 1 /\ h[1] = words[1]
  <2>1. t \in Seq(Words)
    BY <1>1, FromFirstIs
  <2>2. h \in Seq(Words) /\ Len(h) = 1 /\ h[1] = words[1]
    BY <1>1
  <2> QED
    BY <2>1, <2>2
<1> HIDE DEF t, h
<1>3. /\ s \in Seq(Words) /\ Len(s) = 1 + Len(t) /\ Len(t) \in Nat
      /\ \A i \in 1 .. 1 + Len(t) : s[i] = IF i <= 1 THEN h[i] ELSE t[i - 1]
  <2>1. /\ s \in Seq(Words) /\ Len(s) = Len(h) + Len(t)
        /\ \A i \in 1 .. Len(h) + Len(t) : s[i] = IF i <= Len(h) THEN h[i] ELSE t[i - Len(h)]
    BY <1>2, ConcatProperties
  <2>2. Len(t) \in Nat
    BY <1>2, LenProperties
  <2> HIDE DEF s
  <2> QED
    BY <1>2, <2>1, <2>2
<1> HIDE DEF s
<1>4. s[1] = words[1] /\ s # <<>>
  BY <1>2, <1>3
<1>5. /\ Tail(s) \in Seq(Words) /\ Len(Tail(s)) = Len(t)
      /\ \A i \in 1 .. Len(t) : Tail(s)[i] = s[i + 1]
  BY <1>3, <1>4, TailOf
<1>6. ASSUME NEW i \in 1 .. Len(t) PROVE Tail(s)[i] = t[i]
  <2>1. i + 1 \in 1 .. 1 + Len(t) /\ ~ (i + 1 <= 1) /\ (i + 1) - 1 = i
    BY <1>3
  <2>2. s[i + 1] = t[(i + 1) - 1]
    BY <1>3, <2>1
  <2> QED
    BY <1>5, <2>1, <2>2
<1>7. Tail(s) = t
  BY <1>2, <1>5, <1>6, SeqEqual
<1> QED
  BY <1>3, <1>4, <1>7 DEF s, t, h, WithoutEmpty

\* A command is executed as the line that was typed means it.
TypedAs(words, name, args) ==
    /\ name \in Meant(words)
    /\ args = IF Len(name) = 1 THEN Tail(words)
              ELSE IF Called(name, WithoutEmpty(words))
              THEN SubSeq(WithoutEmpty(words), Len(name) + 1, Len(WithoutEmpty(words)))
              ELSE Difference(Tail(words), ItsWords(name))

\* The command of the first word is what is meant, and has the words after it.
LEMMA FirstWordMeant ==
    ASSUME NEW words \in Seq(Words), words # <<>>, <<El(Lower[words[1]])>> \in Range(Required)
    PROVE  TypedAs(words, <<El(Lower[words[1]])>>, Tail(words))
<1> DEFINE w == Lower[words[1]]
           name == <<El(w)>>
           line1 == WithoutEmpty(words)
<1>1. PICK i \in DOMAIN Required : name = Required[i]
  BY DEF Range
<1>2. line1 \in Seq(Words) /\ line1[1] = words[1] /\ Len(line1) \in Nat /\ Len(line1) >= 1
  BY WithoutEmptyIs, LenProperties, EmptySeq
<1>3. Len(Required[i]) = 1 /\ Required[i][1].word = w
  <2>1. Len(name) = 1 /\ name[1].word = w
    BY DEF El
  <2> HIDE DEF name
  <2> QED
    BY <1>1, <2>1
<1> HIDE DEF name, w, line1
<1>4. Called(name, line1)
  <2>1. /\ Len(Required[i]) <= Len(line1)
        /\ \A j \in 1 .. Len(Required[i]) : Required[i][j].word = Lower[line1[j]]
        /\ \A j \in 3 .. Len(Required[i]) : ~Required[i][j].star
    BY <1>2, <1>3 DEF w
  <2> QED
    BY <1>1, <1>2, <2>1, CalledIs
<1>5. ASSUME NEW m \in Range(Required), Len(m) > 1, m[1].word = w PROVE FALSE
  <2>1. PICK j \in DOMAIN Required : m = Required[j]
    BY DEF Range
  <2>2. j \in SubCommands(name)
    BY <1>5, <2>1, SubCommandsOfWord DEF name
  <2>3. name \notin DOMAIN CommandOf
    BY <2>2, SubCommandIs
  <2> QED
    BY <1>1, <2>3, RequiredIs
<1>6. ASSUME NEW m \in Beginnings(line1) PROVE Len(m) <= Len(name) /\ Len(m) \in Nat
  <2>1. PICK j \in DOMAIN Required : m = Required[j]
    BY DEF Beginnings, Range
  <2>2. Len(m) >= 1 /\ Len(m) \in Nat
    BY <2>1, RequiredIs
  <2>3. m[1].word = w
    BY <1>2, <2>1, <2>2, CalledIs DEF Beginnings, w
  <2>4. ~ (Len(m) > 1)
    BY <1>5, <2>3 DEF Beginnings
  <2> QED
    BY <1>1, <1>3, <2>2, <2>4
<1>7. name \in Longest(line1)
  BY <1>1, <1>4, <1>6 DEF Longest, Beginnings, Range
<1>8. DefaultsOf(words) = {}
  <2> SUFFICES ASSUME NEW m \in DefaultsOf(words) PROVE FALSE
    OBVIOUS
  <2>1. PICK j \in DOMAIN Required : m = Required[j]
    BY DEF DefaultsOf, Range
  <2>2. PICK k \in DOMAIN m : m[k].star
    BY DEF DefaultsOf, IsDefault
  <2>3. DOMAIN m = 1 .. Len(m) /\ ~m[1].star /\ Len(m) \in Nat
    BY <2>1, RequiredIs
  <2>4. Len(m) > 1
    BY <2>2, <2>3
  <2> QED
    BY <1>5, <2>4 DEF DefaultsOf, w
<1>9. name \in Meant(words)
  BY <1>7, <1>8, MeantIs DEF line1
<1>10. TypedAs(words, name, Tail(words))
  BY <1>1, <1>3, <1>9 DEF TypedAs
<1> QED
  BY <1>10 DEF name, w

\* The words after the first k of a sequence without its first are those after its first k + 1.
LEMMA AfterTail ==
    ASSUME NEW words \in Seq(Words), words # <<>>, NEW k \in Nat, k <= Len(words) - 1
    PROVE  SubSeq(Tail(words), k + 1, Len(Tail(words))) = SubSeq(words, k + 2, Len(words))
<1> DEFINE args == Tail(words)
           p == SubSeq(args, k + 1, Len(args))
           q == SubSeq(words, (k + 1) + 1, Len(words))
<1>1. /\ args \in Seq(Words) /\ Len(args) = Len(words) - 1 /\ Len(words) \in Nat
      /\ \A j \in 1 .. Len(words) - 1 : args[j] = words[j + 1]
  BY TailOf, LenProperties
<1> HIDE DEF args
<1>2. p \in Seq(Words) /\ Len(p) = Len(args) - k /\ \A j \in 1 .. Len(args) - k : p[j] = args[k + j]
  BY <1>1, PartsOf
<1>3. /\ q \in Seq(Words) /\ Len(q) = Len(words) - (k + 1)
      /\ \A j \in 1 .. Len(words) - (k + 1) : q[j] = words[(k + 1) + j]
  <2> DEFINE m == k + 1
  <2>1. m \in Nat /\ m <= Len(words)
    BY <1>1
  <2> HIDE DEF m
  <2>2. /\ SubSeq(words, m + 1, Len(words)) \in Seq(Words) /\ Len(SubSeq(words, m + 1, Len(words))) = Len(words) - m
        /\ \A j \in 1 .. Len(words) - m : SubSeq(words, m + 1, Len(words))[j] = words[m + j]
    BY <2>1, PartsOf
  <2> QED
    BY <2>2 DEF m
<1> HIDE DEF p, q
<1>4. Len(p) = Len(q) /\ Len(p) = Len(words) - (k + 1)
  BY <1>1, <1>2, <1>3
<1>5. ASSUME NEW j \in 1 .. Len(p) PROVE p[j] = q[j]
  <2>1. j \in 1 .. Len(args) - k /\ j \in 1 .. Len(words) - (k + 1)
    BY <1>1, <1>4
  <2>2. k + j \in 1 .. Len(words) - 1 /\ (k + j) + 1 = (k + 1) + j
    BY <1>1, <2>1
  <2>3. p[j] = args[k + j] /\ q[j] = words[(k + 1) + j]
    BY <1>2, <1>3, <2>1
  <2>4. args[k + j] = words[(k + j) + 1]
    BY <1>1, <2>2
  <2> QED
    BY <2>2, <2>3, <2>4
<1>6. p = q
  BY <1>2, <1>3, <1>4, <1>5, SeqEqual
<1>7. (k + 1) + 1 = k + 2
  OBVIOUS
<1> QED
  BY <1>6, <1>7 DEF p, q, args


\* The subcommand built for a line is the one that the line means, with the words that are its own.
LEMMA BuiltMeant ==
    ASSUME NEW words \in Seq(Words), words # <<>>, NEW name, NEW a,
           BuildHierarchicalCommand(<<El(Lower[words[1]])>>, Tail(words)) = <<[name |-> name, args |-> a]>>
    PROVE  TypedAs(words, name, a)
<1> DEFINE w == Lower[words[1]]
           parent == <<El(w)>>
           line1 == WithoutEmpty(words)
           args == Tail(line1)
           F == FoundParts(parent, args)
           D == DefaultCommands(parent)
           b == BuildHierarchicalCommand(parent, Tail(words))
<1>1. /\ args \in Seq(Words) /\ Len(args) = Len(line1) - 1 /\ Len(line1) \in Nat
      /\ line1 \in Seq(Words) /\ line1 # <<>> /\ line1[1] = words[1]
      /\ args = FromFirst(Tail(words)) /\ Tail(words) \in Seq(Words)
  BY WithoutEmptyIs, TailOf, LenProperties
<1>2. ASSUME NEW i, NEW c, b = <<[name |-> Required[i], args |-> c]>>
      PROVE  name = Required[i] /\ a = c
  <2> DEFINE r == [name |-> Required[i], args |-> c]
             q == [name |-> name, args |-> a]
  <2>1. <<r>> = <<q>>
    BY <1>2
  <2>2. <<r>>[1] = r /\ <<q>>[1] = q
    OBVIOUS
  <2>3. r = q
    BY <2>1, <2>2
  <2>4. r.name = Required[i] /\ r.args = c /\ q.name = name /\ q.args = a
    OBVIOUS
  <2> QED
    BY <2>3, <2>4
<1> HIDE DEF line1
<1>3. ASSUME NEW n \in Beginnings(line1), Len(n) > 1
      PROVE  \E k \in F : Len(n) = k + 1
  <2>1. PICK i \in DOMAIN Required : n = Required[i]
    BY DEF Beginnings, Range
  <2>2. Called(Required[i], line1) /\ Len(n) \in Nat
    BY <2>1, RequiredIs DEF Beginnings
  <2>3. Len(n) <= Len(line1) /\ n[1].word = w
    BY <1>1, <1>3, <2>1, <2>2, CalledIs
  <2>4. i \in SubCommands(parent)
    BY <1>3, <2>1, <2>3, SubCommandsOfWord
  <2> DEFINE k == Len(n) - 1
  <2>5. k \in 1 .. Len(args) /\ Len(n) = k + 1
    BY <1>1, <1>3, <2>2, <2>3
  <2> HIDE DEF k
  <2>6. i \in Named(parent, args, k)
    BY <1>1, <2>1, <2>2, <2>4, <2>5, NamedIsCalled
  <2> QED
    BY <2>5, <2>6 DEF FoundParts
<1>4. CASE F # {}
  <2>1. PICK k \in F : \E i \in Named(parent, args, k) :
           (\A m \in F : m <= k) /\ b = <<[name |-> Required[i], args |-> SubSeq(args, k + 1, Len(args))]>>
    BY <1>1, <1>4, BuildIs
  <2>2. PICK i \in Named(parent, args, k) :
           (\A m \in F : m <= k) /\ b = <<[name |-> Required[i], args |-> SubSeq(args, k + 1, Len(args))]>>
    BY <2>1
  <2>3. name = Required[i] /\ a = SubSeq(args, k + 1, Len(args))
    <3> HIDE DEF b
    <3> QED
      BY <1>2, <2>2
  <2>4. k \in 1 .. Len(args) /\ i \in SubCommands(parent) /\ k \in Nat
    BY DEF FoundParts, Named
  <2>5. Called(name, line1) /\ Len(name) = k + 1
    BY <1>1, <2>3, <2>4, NamedIsCalled
  <2>6. i \in DOMAIN Required /\ name \in Range(Required)
    BY <2>3, <2>4, SubCommandIs DEF Range
  <2>7. ASSUME NEW m \in Beginnings(line1) PROVE Len(m) <= Len(name)
    <3>1. PICK j \in DOMAIN Required : m = Required[j]
      BY DEF Beginnings, Range
    <3>2. Len(m) \in Nat
      BY <3>1, RequiredIs
    <3>3. CASE Len(m) > 1
      <4>1. PICK l \in F : Len(m) = l + 1
        BY <1>3, <3>3
      <4>2. l <= k /\ l \in Nat
        BY <2>2, <4>1 DEF FoundParts
      <4> QED
        BY <2>4, <2>5, <4>1, <4>2
    <3> QED
      BY <2>4, <2>5, <3>2, <3>3
  <2>8. name \in Longest(line1) /\ Len(name) > 1
    BY <2>4, <2>5, <2>6, <2>7 DEF Longest, Beginnings
  <2>9. name \in Meant(words)
    BY <2>8, MeantIs DEF line1
  <2>10. a = SubSeq(line1, Len(name) + 1, Len(line1))
    <3>1. k <= Len(line1) - 1
      BY <1>1, <2>4
    <3>2. SubSeq(args, k + 1, Len(args)) = SubSeq(line1, k + 2, Len(line1))
      BY <1>1, <2>4, <3>1, AfterTail
    <3>3. Len(name) + 1 = k + 2
      BY <2>4, <2>5
    <3> QED
      BY <2>3, <3>2, <3>3
  <2> QED
    BY <2>5, <2>8, <2>9, <2>10 DEF TypedAs, line1
<1>5. CASE F = {}
  <2>1. D # {}
    <3> SUFFICES ASSUME D = {} PROVE FALSE
      OBVIOUS
    <3>1. b = <<>>
      BY <1>1, <1>5, BuildIs
    <3> QED
      BY <3>1, SMTT(30)
  <2>2. PICK i \in D : b = <<[name |-> Required[i], args |-> Difference(Tail(words), ItsWords(Required[i]))]>>
    BY <1>1, <1>5, <2>1, BuildIs
  <2>3. name = Required[i] /\ a = Difference(Tail(words), ItsWords(Required[i]))
    <3> HIDE DEF b
    <3> QED
      BY <1>2, <2>2
  <2>4. i \in SubCommands(parent) /\ IsDefault(Tail(Required[i]))
    BY DEF DefaultCommands
  <2>5. i \in DOMAIN Required /\ Len(name) > 1 /\ name[1].word = w /\ name \in Range(Required) /\ Len(name) \in Nat
    BY <2>3, <2>4, SubCommandIs, SubCommandsOfWord, RequiredIs
  <2>6. IsDefault(name)
    <3> DEFINE t == Tail(name)
    <3>1. name \in Seq(Elements) /\ name # <<>> /\ DOMAIN name = 1 .. Len(name)
      BY <2>3, <2>5, RequiredIs
    <3>2. DOMAIN t = 1 .. Len(name) - 1 /\ \A j \in 1 .. Len(name) - 1 : t[j] = name[j + 1]
      BY <3>1, TailOf
    <3>3. PICK j \in DOMAIN t : t[j].star
      BY <2>3, <2>4 DEF IsDefault
    <3> HIDE DEF t
    <3>4. j + 1 \in 1 .. Len(name) /\ name[j + 1].star
      BY <2>5, <3>2, <3>3
    <3> QED
      BY <3>1, <3>4 DEF IsDefault
  <2>7. name \in DefaultsOf(words)
    BY <2>5, <2>6 DEF DefaultsOf
  <2>8. ~ \E n \in Longest(line1) : Len(n) > 1
    BY <1>3, <1>5 DEF Longest
  <2>9. name \in Meant(words)
    BY <2>7, <2>8, MeantIs DEF line1
  <2>10. ~Called(name, line1)
    <3> SUFFICES ASSUME Called(name, line1) PROVE FALSE
      OBVIOUS
    <3>1. name \in Beginnings(line1)
      BY <2>5 DEF Beginnings
    <3> QED
      BY <1>3, <1>5, <2>5, <3>1
  <2> QED
    <3>1. Len(name) # 1
      <4>1. Len(name) > 1 /\ Len(name) \in Nat
        BY <2>5
      <4>2. \A n \in Nat : n > 1 => n # 1
        OBVIOUS
      <4> QED
        BY <4>1, <4>2
    <3>2. a = Difference(Tail(words), ItsWords(name))
      BY <2>3
    <3>3. ~ Called(name, WithoutEmpty(words))
      BY <2>10 DEF line1
    <3> QED
      BY <2>9, <3>1, <3>2, <3>3 DEF TypedAs
<1> QED
  BY <1>4, <1>5


-----------------------------------------------------------------------------
(***************************************************************************)
(* What runs.  A frame that has been validated is one that can be          *)
(* executed; the first command that runs is the one of the first word or   *)
(* the one built for it; and no family of commands is begun again below    *)
(* one of its own, but where a parent executes its subcommand or a command *)
(* calls a family that is executed already.                                *)
(***************************************************************************)
Family(name) == name[1].word

\* What a name resolves to when the dynamic commands are registered or not.
Resolved(name, g) ==
    IF name \in DOMAIN CommandOf THEN CommandOf[name]
    ELSE IF SubCommands(name) # {} THEN Hierarchical
    ELSE IF g /\ Len(name) = 1 /\ name[1].word \in GeneratedNames THEN Dynamic
    ELSE NoCommand

\* A command that passed its validation: it judges its arguments itself or
\* they fit, it has a subcommand for them, or it is dynamic.
Checked(name, args, g) ==
    \/ name \in DOMAIN CommandOf /\ (~CommandOf[name].canExecute => Fits(args, CommandOf[name].params))
    \/ SubCommands(name) # {} /\ BuildHierarchicalCommand(name, args) # <<>>
    \/ /\ name \notin DOMAIN CommandOf /\ SubCommands(name) = {}
       /\ g /\ Len(name) = 1 /\ name[1].word \in GeneratedNames

FrameMeans(f, g) ==
    /\ f.name \in Names /\ f.args \in Seq(Words)
    /\ f.at # "try" => Checked(f.name, f.args, g)
    /\ f.at \in {"before", "called", "posted", "after"} => f.hook \in {<<>>, HookName(f.name, f.args)}

RunMeans(r, g) == r.name \in Names /\ Checked(r.name, r.args, g) /\ SubCommands(r.name) = {}

\* Of the commands that ran one executes a family whose command is executed already.
CallsOwn(s) ==
    \E k, m \in 1 .. Len(s) :
        /\ k <= m /\ s[m].name \in DOMAIN CommandOf /\ CommandOf[s[m].name].kind = "calls"
        /\ Family(CommandOf[s[m].name].callee) = Family(s[k].name)

\* The second frame is of the subcommand that is built for the first.
Hierarchy(f, g) == BuildHierarchicalCommand(f.name, f.args) = <<[name |-> g.name, args |-> g.args]>>

\* A frame and one somewhere below it, or next to it, when the commands of s ran.
Related(f, g, next, s) ==
    /\ Family(f.name) = Family(g.name) \/ \E k \in 1 .. Len(s) : Family(s[k].name) = Family(f.name)
    /\ Family(f.name) = Family(g.name) => CallsOwn(s) \/ (next /\ Hierarchy(f, g))

Families ==
    \A i, j \in 1 .. Len(frames) : i < j => Related(frames[i], frames[j], j = i + 1, ran)

OpenedOnce ==
    \A i, j \in 1 .. Len(opened) : opened[i] = opened[j] /\ opened[i] # <<>> => i = j \/ CallsOwn(ran)

\* A line that asks for help executes the command help alone.
HelpAlone ==
    (line.help \/ line.words = <<>>) =>
        /\ \A i \in 1 .. Len(frames) : frames[i].name = <<El(Help)>>
        /\ \A i \in 1 .. Len(ran) : ran[i].name = <<El(Help)>>

\* Until something runs there is the frame of the first word and, below it, that of its subcommand.
FirstMeant ==
    (~line.help /\ line.words # <<>>) =>
        /\ Len(ran) = 0 =>
             /\ Len(frames) <= 2
             /\ Len(frames) >= 1 =>
                  frames[1].name = <<El(Lower[line.words[1]])>> /\ frames[1].args = Tail(line.words)
             /\ Len(frames) = 2 => Hierarchy(frames[1], frames[2])
        /\ (Len(ran) >= 1 /\ ran[1].name \in Range(Required)) =>
             TypedAs(line.words, ran[1].name, ran[1].args)

MeaningTyped ==
    /\ generated \in BOOLEAN /\ noHooks \in BOOLEAN /\ line \in [words : Line, help : BOOLEAN]
    /\ IsSequence(ran)
    /\ status = "waits" => Len(ran) = 0
    /\ status = "exit" => Len(commands) <= Len(frames)

FramesMean == \A i \in 1 .. Len(frames) : FrameMeans(frames[i], generated)
RunsMean == \A i \in 1 .. Len(ran) : RunMeans(ran[i], generated)

MeaningIInv ==
    /\ MeaningTyped /\ FramesMean /\ RunsMean
    /\ HelpAlone /\ FirstMeant /\ Families /\ OpenedOnce


LEMMA ResolvesTo ==
    ASSUME NEW name \in Names, NEW g \in BOOLEAN
    PROVE  LET c == Resolved(name, g)
           IN  /\ name \in DOMAIN CommandOf =>
                    c = CommandOf[name] /\ c.kind \in {"plain", "calls"} /\ SubCommands(name) = {}
               /\ SubCommands(name) # {} =>
                    /\ name \notin DOMAIN CommandOf
                    /\ c # NoCommand /\ c.kind = "hierarchical" /\ c.canExecute = FALSE /\ c.disabled = FALSE
               /\ (name \notin DOMAIN CommandOf /\ SubCommands(name) = {} /\ c # NoCommand) =>
                    /\ c.kind = "dynamic" /\ c.canExecute = TRUE
                    /\ g /\ Len(name) = 1 /\ name[1].word \in GeneratedNames
               /\ (name \notin DOMAIN CommandOf /\ SubCommands(name) = {} /\ ~(g /\ Len(name) = 1
                   /\ name[1].word \in GeneratedNames)) => c.kind = "none"
<1>1. name \in DOMAIN CommandOf => SubCommands(name) = {} /\ CommandOf[name].kind \in {"plain", "calls"}
  BY RegisteredIs
<1>2. /\ Hierarchical.kind = "hierarchical" /\ Hierarchical.canExecute = FALSE /\ Hierarchical.disabled = FALSE
      /\ NoCommand.kind = "none"
  BY DEF Hierarchical, NoCommand
<1>3. Dynamic.kind = "dynamic" /\ Dynamic.canExecute = TRUE
  BY DEF Dynamic, Hierarchical
<1> QED
  BY <1>1, <1>2, <1>3 DEF Resolved

LEMMA ResolveIsResolved == \A name : ResolveCommand(name) = Resolved(name, generated)
BY DEF ResolveCommand, Resolved

\* What was checked stays so when the dynamic commands are registered.
LEMMA CheckedRemains ==
    ASSUME NEW g, NEW h, g => h
    PROVE  /\ \A name, args : Checked(name, args, g) => Checked(name, args, h)
           /\ \A f : FrameMeans(f, g) => FrameMeans(f, h)
           /\ \A r : RunMeans(r, g) => RunMeans(r, h)
<1>1. \A name, args : Checked(name, args, g) => Checked(name, args, h)
  BY DEF Checked
<1> QED
  BY <1>1 DEF FrameMeans, RunMeans

\* What ran stays so when one more command runs.
LEMMA MoreRan ==
    ASSUME NEW s, IsSequence(s), NEW x
    PROVE  /\ CallsOwn(s) => CallsOwn(Append(s, x))
           /\ \A f, g, next : Related(f, g, next, s) => Related(f, g, next, Append(s, x))
<1> DEFINE t == Append(s, x)
<1>1. Len(s) \in Nat /\ Len(t) = Len(s) + 1 /\ \A i \in 1 .. Len(s) : t[i] = s[i]
  BY SequenceIs, AppendedSequence
<1> HIDE DEF t
<1>2. \A i \in 1 .. Len(s) : i \in 1 .. Len(t)
  BY <1>1
<1>3. CallsOwn(s) => CallsOwn(t)
  BY <1>1, <1>2 DEF CallsOwn
<1>4. \A f, g, next : Related(f, g, next, s) => Related(f, g, next, t)
  BY <1>1, <1>2, <1>3 DEF Related
<1> QED
  BY <1>3, <1>4 DEF t

\* The hooks of a command are of its family, and those of a parent that has a subcommand have a longer name.
LEMMA HookNameIs ==
    ASSUME NEW name \in Names, NEW args \in Seq(Words)
    PROVE  LET h == HookName(name, args)
           IN  /\ h[1] = Family(name)
               /\ BuildHierarchicalCommand(name, args) # <<>> => Len(h) >= 2
               /\ BuildHierarchicalCommand(name, args) = <<>> => Len(h) = 1
<1> DEFINE b == BuildHierarchicalCommand(name, args)
           h == HookName(name, args)
<1>1. CASE b # <<>>
  <2>1. PICK i \in SubCommands(name), a \in Seq(Words) : b = <<[name |-> Required[i], args |-> a]>>
    BY <1>1, BuiltIs
  <2>2. h = PlainWords(b[1].name)
    BY <1>1 DEF HookName
  <2>3. b[1].name = Required[i]
    <3> HIDE DEF b
    <3> QED
      BY <2>1
  <2>4. /\ Required[i] \in Seq(Elements) /\ Len(Required[i]) >= 2 /\ Len(Required[i]) \in Nat
        /\ name[1] = Required[i][1]
    BY SubCommandIs, RequiredIs
  <2>5. Len(h) = Len(Required[i]) /\ h[1] = Required[i][1].word
    <3>1. h = PlainWords(Required[i])
      BY <2>2, <2>3
    <3>2. 1 \in 1 .. Len(Required[i])
      BY <2>4
    <3> HIDE DEF h
    <3> QED
      BY <2>4, <3>1, <3>2, WordsOf
  <2> QED
    BY <1>1, <2>4, <2>5 DEF Family
<1>2. CASE b = <<>>
  <2>1. h = <<name[1].word>>
    BY <1>2 DEF HookName
  <2>2. h[1] = name[1].word /\ Len(h) = 1
    <3> DEFINE w == name[1].word
    <3> HIDE DEF w, h
    <3> QED
      BY <2>1 DEF w
  <2> QED
    BY <1>2, <2>2 DEF Family
<1> QED
  BY <1>1, <1>2

\* A subcommand that is built is a registered command.
LEMMA SubcommandIsRegistered ==
    ASSUME NEW f, NEW g, f.args \in Seq(Words), Hierarchy(f, g)
    PROVE  \E i \in SubCommands(f.name) : g.name = Required[i] /\ g.name \in DOMAIN CommandOf
<1> DEFINE b == BuildHierarchicalCommand(f.name, f.args)
           q == [name |-> g.name, args |-> g.args]
<1>1. b = <<q>>
  BY DEF Hierarchy
<1>2. b # <<>>
  <2> HIDE DEF b, q
  <2> QED
    BY <1>1
<1>3. PICK i \in SubCommands(f.name), a \in Seq(Words) : b = <<[name |-> Required[i], args |-> a]>>
  BY <1>2, BuiltIs
<1>4. g.name = Required[i]
  <2> DEFINE r == [name |-> Required[i], args |-> a]
  <2>1. <<q>> = <<r>>
    BY <1>1, <1>3
  <2>2. <<q>>[1] = q /\ <<r>>[1] = r /\ q.name = g.name /\ r.name = Required[i]
    OBVIOUS
  <2> HIDE DEF q, r
  <2> QED
    BY <2>1, <2>2
<1> QED
  BY <1>4, SubCommandIs

\* Two frames of one family, the second not the subcommand built for the first, or else with other hooks.
LEMMA OtherHooks ==
    ASSUME NEW f, NEW g, f.name \in Names, f.args \in Seq(Words), g.name \in Names, g.args \in Seq(Words),
           NEW next, NEW s, Related(f, g, next, s),
           HookName(f.name, f.args) = HookName(g.name, g.args)
    PROVE  CallsOwn(s)
<1>1. Family(f.name) = Family(g.name)
  BY HookNameIs
<1>2. SUFFICES ASSUME Hierarchy(f, g) PROVE FALSE
  BY <1>1 DEF Related
<1> DEFINE b == BuildHierarchicalCommand(f.name, f.args)
<1>3. b # <<>>
  <2>1. b = <<[name |-> g.name, args |-> g.args]>>
    BY <1>2 DEF Hierarchy
  <2> HIDE DEF b
  <2> QED
    BY <2>1
<1>4. g.name \in DOMAIN CommandOf
  BY <1>2, SubcommandIsRegistered
<1>6. SubCommands(g.name) = {}
  BY <1>4, RegisteredIs
<1>7. BuildHierarchicalCommand(g.name, g.args) = <<>>
  BY <1>6, NothingBuilt
<1>8. Len(HookName(f.name, f.args)) >= 2 /\ Len(HookName(g.name, g.args)) = 1
  BY <1>3, <1>7, HookNameIs
<1> QED
  BY <1>8


\* The hooks that were begun stay apart whatever runs.
LEMMA OpenedRemains ==
    ASSUME OpenedOnce, opened' = opened, IsSequence(ran),
           NEW x, ran' = ran \/ ran' = Append(ran, x)
    PROVE  OpenedOnce'
<1>1. CallsOwn(ran) => CallsOwn(ran')
  BY MoreRan
<1> HIDE DEF CallsOwn
<1> QED
  BY <1>1 DEF OpenedOnce

\* Frames are left or go on, and nothing runs.
LEMMA FramesNarrow ==
    ASSUME FramesShape, MeaningIInv, Len(frames') \in 0 .. Len(frames),
           \A i \in 1 .. Len(frames') : frames'[i].name = frames[i].name /\ frames'[i].args = frames[i].args,
           UNCHANGED <<line, ran>>
    PROVE  HelpAlone' /\ FirstMeant' /\ Families'
<1>1. Len(frames) \in Nat /\ Len(frames') \in Nat /\ Len(frames') <= Len(frames)
  BY Lengths
<1>2. \A i \in 1 .. Len(frames') : i \in 1 .. Len(frames)
  BY <1>1
<1>3. HelpAlone'
  BY <1>2 DEF HelpAlone, MeaningIInv
<1>4. FirstMeant'
  <2> SUFFICES ASSUME ~line.help, line.words # <<>>
               PROVE  /\ Len(ran) = 0 =>
                           /\ Len(frames') <= 2
                           /\ Len(frames') >= 1 =>
                                /\ frames'[1].name = <<El(Lower[line.words[1]])>>
                                /\ frames'[1].args = Tail(line.words)
                           /\ Len(frames') = 2 => Hierarchy(frames'[1], frames'[2])
                      /\ (Len(ran) >= 1 /\ ran[1].name \in Range(Required)) =>
                           TypedAs(line.words, ran[1].name, ran[1].args)
    BY DEF FirstMeant
  <2>1. /\ Len(ran) = 0 =>
             /\ Len(frames) <= 2
             /\ Len(frames) >= 1 =>
                  frames[1].name = <<El(Lower[line.words[1]])>> /\ frames[1].args = Tail(line.words)
             /\ Len(frames) = 2 => Hierarchy(frames[1], frames[2])
        /\ (Len(ran) >= 1 /\ ran[1].name \in Range(Required)) =>
             TypedAs(line.words, ran[1].name, ran[1].args)
    BY DEF FirstMeant, MeaningIInv
  <2>2. ASSUME Len(ran) = 0 PROVE Len(frames') <= 2
    BY <1>1, <2>1, <2>2
  <2>3. ASSUME Len(ran) = 0, Len(frames') >= 1
        PROVE  frames'[1].name = <<El(Lower[line.words[1]])>> /\ frames'[1].args = Tail(line.words)
    <3>1. 1 \in 1 .. Len(frames') /\ Len(frames) >= 1
      BY <1>1, <2>3
    <3> QED
      BY <2>1, <2>3, <3>1
  <2>4. ASSUME Len(ran) = 0, Len(frames') = 2 PROVE Hierarchy(frames'[1], frames'[2])
    <3>0. Len(frames) <= 2
      BY <2>1, <2>4
    <3> DEFINE n == Len(frames)
               m == Len(frames')
    <3>1. n \in Nat /\ n <= 2 /\ m = 2 /\ m <= n
      BY <1>1, <2>4, <3>0
    <3> HIDE DEF n, m
    <3>2. 1 \in 1 .. m /\ 2 \in 1 .. m /\ n = 2
      BY <3>1
    <3> QED
      BY <2>1, <2>4, <3>2 DEF Hierarchy, n, m
  <2> QED
    BY <2>1, <2>2, <2>3, <2>4
<1>5. Families'
  <2> SUFFICES ASSUME NEW i \in 1 .. Len(frames'), NEW j \in 1 .. Len(frames'), i < j
               PROVE  Related(frames'[i], frames'[j], j = i + 1, ran')
    BY DEF Families
  <2>1. Related(frames[i], frames[j], j = i + 1, ran)
    BY <1>2 DEF Families, MeaningIInv
  <2> QED
    BY <2>1 DEF Related, Hierarchy
<1> QED
  BY <1>3, <1>4, <1>5

\* A step that runs nothing and opens nothing.
LEMMA MeaningStays ==
    ASSUME FramesShape, MeaningIInv, Len(frames') \in 0 .. Len(frames),
           \A i \in 1 .. Len(frames') : frames'[i].name = frames[i].name /\ frames'[i].args = frames[i].args,
           \A i \in 1 .. Len(frames') : FrameMeans(frames'[i], generated'),
           generated' \in BOOLEAN, generated => generated', UNCHANGED <<line, ran, noHooks>>,
           opened' = opened, status' # "waits", status' = "exit" => Len(commands') <= Len(frames')
    PROVE  MeaningIInv'
<1>1. HelpAlone' /\ FirstMeant' /\ Families'
  BY FramesNarrow
<1>2. OpenedOnce'
  BY DEF OpenedOnce, MeaningIInv
<1>3. MeaningTyped' /\ FramesMean'
  BY DEF MeaningTyped, FramesMean, MeaningIInv
<1>4. RunsMean'
  BY CheckedRemains DEF RunsMean, MeaningIInv
<1> QED
  BY <1>1, <1>2, <1>3, <1>4 DEF MeaningIInv

\* The innermost frame goes on.
LEMMA MeaningGoesOn ==
    ASSUME CommandsIInv, MeaningIInv, status = "runs", NEW f, FrameIs(f),
           f.name = Top.name, f.args = Top.args, FrameMeans(f, generated),
           frames' = [frames EXCEPT ![Len(frames)] = f],
           UNCHANGED <<line, ran, noHooks>>, UNCHANGED generated, UNCHANGED opened, status' = "runs"
    PROVE  MeaningIInv'
<1>1. FramesShape /\ frames # <<>> /\ MeaningTyped /\ FramesMean
  BY DEF CommandsIInv, FramesShape, MeaningIInv
<1>2. Len(frames) \in Nat /\ Top = frames[Len(frames)]
  BY <1>1, Lengths
<1>3. /\ Len(frames') = Len(frames)
      /\ \A i \in 1 .. Len(frames) : frames'[i] = IF i = Len(frames) THEN f ELSE frames[i]
  BY <1>1, TopBecomes, SMTT(30)
<1>4. \A i \in 1 .. Len(frames') : frames'[i].name = frames[i].name /\ frames'[i].args = frames[i].args
  <2>1. ASSUME NEW i \in 1 .. Len(frames') PROVE frames'[i].name = frames[i].name /\ frames'[i].args = frames[i].args
    <3>1. CASE i = Len(frames)
      <4>1. frames'[i] = f
        BY <1>3, <3>1
      <4>2. frames[i] = Top
        BY <1>2, <3>1
      <4>3. f.name = Top.name /\ f.args = Top.args
        OBVIOUS
      <4> QED
        BY ONLY <4>1, <4>2, <4>3
    <3>2. CASE i # Len(frames)
      <4>1. frames'[i] = frames[i]
        BY ONLY <1>3, <2>1, <3>2
      <4> QED
        BY ONLY <4>1
    <3> QED
      BY <3>1, <3>2
  <2> QED
    BY <2>1
<1>5. \A i \in 1 .. Len(frames') : FrameMeans(frames'[i], generated')
  BY <1>1, <1>2, <1>3 DEF FramesMean
<1>6. Len(frames') \in 0 .. Len(frames)
  BY <1>2, <1>3
<1> QED
  BY <1>1, <1>4, <1>5, <1>6, MeaningStays DEF MeaningTyped

\* The process ends, or only what resolves to a command changes.
LEMMA MeaningHere ==
    ASSUME CommandsIInv, MeaningIInv, status = "runs", UNCHANGED frames,
           UNCHANGED <<line, ran, noHooks>>, UNCHANGED opened, generated' \in BOOLEAN, generated => generated',
           status' # "waits", status' = "exit" => Len(commands') <= Len(frames)
    PROVE  MeaningIInv'
<1>1. FramesShape /\ FramesMean
  BY DEF CommandsIInv, MeaningIInv
<1>2. Len(frames) \in Nat /\ Len(frames') \in 0 .. Len(frames)
  BY <1>1, Lengths
<1>3. \A i \in 1 .. Len(frames') : frames'[i].name = frames[i].name /\ frames'[i].args = frames[i].args
  OBVIOUS
<1>4. \A i \in 1 .. Len(frames') : FrameMeans(frames'[i], generated')
  BY <1>1, CheckedRemains DEF FramesMean
<1>5. status' = "exit" => Len(commands') <= Len(frames')
  OBVIOUS
<1> QED
  BY <1>1, <1>2, <1>3, <1>4, <1>5, MeaningStays

\* Each command on the stack is of an open frame.
LEMMA StackFits == CommandsIInv /\ status = "runs" => Len(commands) <= Len(frames)
<1> SUFFICES ASSUME CommandsIInv, status = "runs" PROVE Len(commands) <= Len(frames)
  OBVIOUS
<1>1. Len(frames) \in Nat
  BY Lengths DEF CommandsIInv
<1>2. Len(commands) = IF Top.at \in {"try", "start"} THEN Len(frames) - 1 ELSE Len(frames)
  BY DEF CommandsIInv, Counted
<1> QED
  BY <1>1, <1>2

LEMMA MeaningThrow ==
    ASSUME CommandsIInv, MeaningIInv, status = "runs", NEW suppressHelp, Throw(suppressHelp)
    PROVE  MeaningIInv'
<1>1. /\ UNCHANGED frames /\ UNCHANGED <<line, ran, noHooks>> /\ UNCHANGED opened /\ UNCHANGED generated
      /\ UNCHANGED commands /\ status' = "exit"
  BY DEF Throw, commandsHistory
<1>2. Len(commands) <= Len(frames)
  BY StackFits
<1>3. generated \in BOOLEAN
  BY DEF MeaningIInv, MeaningTyped
<1> QED
  BY <1>1, <1>2, <1>3, MeaningHere

LEMMA MeaningReturn ==
    ASSUME CommandsIInv, MeaningIInv, status = "runs", Return, UNCHANGED ran, UNCHANGED opened
    PROVE  MeaningIInv'
<1>1. FramesShape /\ FramesMean /\ frames # <<>> /\ MeaningTyped
  BY DEF CommandsIInv, FramesShape, MeaningIInv
<1>2. /\ frames' = Front(frames) /\ UNCHANGED <<line, ran, noHooks>> /\ UNCHANGED generated
      /\ status' \in {"done", "runs"}
  BY DEF Return
<1>3. /\ Len(frames') = Len(frames) - 1 /\ Len(frames) \in Nat /\ Len(frames) # 0
      /\ \A i \in 1 .. Len(frames) - 1 : frames'[i] = frames[i]
  BY <1>1, <1>2, FrontOfSequence, Lengths DEF FramesShape
<1>4. Len(frames') \in 0 .. Len(frames) /\ \A i \in 1 .. Len(frames') : i \in 1 .. Len(frames)
  BY <1>3
<1>5. /\ \A i \in 1 .. Len(frames') : frames'[i].name = frames[i].name /\ frames'[i].args = frames[i].args
      /\ \A i \in 1 .. Len(frames') : FrameMeans(frames'[i], generated')
  BY <1>1, <1>2, <1>3, <1>4 DEF FramesMean
<1>6. status' # "waits" /\ status' # "exit"
  BY <1>2
<1> QED
  BY <1>1, <1>2, <1>4, <1>5, <1>6, MeaningStays DEF MeaningTyped


\* A line is a sequence of words.
LEMMA LineIs ==
    ASSUME NEW l \in [words : Line, help : BOOLEAN]
    PROVE  l.words \in Seq(Words)
<1>1. l.words \in Line
  OBVIOUS
<1>2. PICK m \in 0 .. MaxWords : l.words \in [1 .. m -> Words]
  BY <1>1 DEF Line, SeqOf
<1>3. m \in Nat
  BY CommandsAssumption
<1> QED
  BY <1>2, <1>3, IsASeq


TopRan == [name |-> Top.name, args |-> Top.args]

\* The first command that runs is the one that was typed.
LEMMA FirstRuns ==
    ASSUME CommandsIInv, MeaningIInv, status = "runs", UNCHANGED line, ran' = Append(ran, TopRan)
    PROVE  FirstMeant'
<1> DEFINE n == Len(frames)
<1>1. /\ FramesShape /\ frames # <<>> /\ IsSequence(ran) /\ FramesMean /\ FirstMeant
      /\ line \in [words : Line, help : BOOLEAN]
  BY DEF CommandsIInv, FramesShape, MeaningIInv, MeaningTyped
<1>2. n \in Nat /\ n >= 1 /\ Top = frames[n]
  BY <1>1, Lengths
<1>3. /\ Len(ran) \in Nat /\ Len(ran') = Len(ran) + 1 /\ \A i \in 1 .. Len(ran) : ran'[i] = ran[i]
      /\ ran'[Len(ran) + 1] = TopRan
  BY <1>1, SequenceIs, AppendedSequence
<1>4. TopRan.name = Top.name /\ TopRan.args = Top.args
  BY DEF TopRan
<1>5. SUFFICES ASSUME ~line.help, line.words # <<>>, ran'[1].name \in Range(Required)
               PROVE  TypedAs(line.words, ran'[1].name, ran'[1].args)
  BY <1>3 DEF FirstMeant
<1>6. line.words \in Seq(Words)
  BY <1>1, LineIs
<1>7. CASE Len(ran) >= 1
  <2>1. ran'[1] = ran[1]
    BY <1>3, <1>7
  <2> QED
    BY <1>1, <1>5, <1>7, <2>1 DEF FirstMeant
<1>8. CASE Len(ran) = 0
  <2>1. ran'[1] = TopRan
    BY <1>3, <1>8
  <2>2. /\ n <= 2
        /\ frames[1].name = <<El(Lower[line.words[1]])>> /\ frames[1].args = Tail(line.words)
        /\ n = 2 => Hierarchy(frames[1], frames[2])
    BY <1>1, <1>2, <1>5, <1>8 DEF FirstMeant
  <2>3. CASE n = 1
    <3>1. Top.name = <<El(Lower[line.words[1]])>> /\ Top.args = Tail(line.words)
      BY <1>2, <2>2, <2>3
    <3>2. <<El(Lower[line.words[1]])>> \in Range(Required)
      BY <1>4, <1>5, <2>1, <3>1
    <3>3. TypedAs(line.words, <<El(Lower[line.words[1]])>>, Tail(line.words))
      BY <1>5, <1>6, <3>2, FirstWordMeant
    <3> QED
      BY <1>4, <2>1, <3>1, <3>3
  <2>4. CASE n = 2
    <3>1. Hierarchy(frames[1], Top)
      BY <1>2, <2>2, <2>4
    <3>2. BuildHierarchicalCommand(<<El(Lower[line.words[1]])>>, Tail(line.words))
            = <<[name |-> Top.name, args |-> Top.args]>>
      BY <2>2, <3>1 DEF Hierarchy
    <3>3. TypedAs(line.words, Top.name, Top.args)
      BY <1>5, <1>6, <3>2, BuiltMeant
    <3> QED
      BY <1>4, <2>1, <3>3
  <2>5. n = 1 \/ n = 2
    <3> HIDE DEF n
    <3> QED
      BY <1>2, <2>2
  <2> QED
    BY <2>3, <2>4, <2>5
<1> QED
  BY <1>3, <1>7, <1>8

\* A command that is executed runs: what is known of it is of what ran.
LEMMA OneMoreRan ==
    ASSUME CommandsIInv, MeaningIInv, status = "runs", Top.at # "try", Command.kind # "hierarchical",
           UNCHANGED <<line, noHooks>>, UNCHANGED generated, UNCHANGED opened, UNCHANGED commands, status' = "runs",
           ran' = Append(ran, TopRan)
    PROVE  /\ MeaningTyped' /\ RunsMean' /\ FirstMeant' /\ OpenedOnce'
           /\ (line.help \/ line.words = <<>>) => \A i \in 1 .. Len(ran') : ran'[i].name = <<El(Help)>>
           /\ \A f, g, next : Related(f, g, next, ran) => Related(f, g, next, ran')
           /\ IsSequence(ran') /\ Len(ran') = Len(ran) + 1 /\ Len(ran) \in Nat
           /\ \A i \in 1 .. Len(ran) : ran'[i] = ran[i]
           /\ ran'[Len(ran) + 1].name = Top.name
<1>1. /\ FramesShape /\ frames # <<>> /\ MeaningTyped /\ FramesMean /\ RunsMean /\ HelpAlone /\ OpenedOnce
  BY DEF CommandsIInv, FramesShape, MeaningIInv
<1>2. Len(frames) \in 1 .. Len(frames) /\ Top = frames[Len(frames)]
  BY <1>1, Lengths
<1>3. /\ IsSequence(ran') /\ Len(ran) \in Nat /\ Len(ran') = Len(ran) + 1
      /\ \A i \in 1 .. Len(ran) : ran'[i] = ran[i]
      /\ ran'[Len(ran) + 1] = TopRan
  BY <1>1, SequenceIs, AppendedSequence DEF MeaningTyped
<1>4. TopRan.name = Top.name /\ TopRan.args = Top.args
  BY DEF TopRan
<1>5. FrameMeans(Top, generated) /\ generated \in BOOLEAN
  BY <1>1, <1>2 DEF FramesMean, MeaningTyped
<1>6. SubCommands(Top.name) = {}
  <2>1. Command = Resolved(Top.name, generated)
    BY ResolveIsResolved DEF Command
  <2> QED
    BY <1>5, <2>1, ResolvesTo DEF FrameMeans
<1>7. RunMeans(TopRan, generated)
  BY <1>4, <1>5, <1>6 DEF FrameMeans, RunMeans
<1>8. RunsMean'
  <2> SUFFICES ASSUME NEW i \in 1 .. Len(ran) + 1 PROVE RunMeans(ran'[i], generated)
    BY <1>3 DEF RunsMean
  <2>1. i = Len(ran) + 1 \/ i \in 1 .. Len(ran)
    BY <1>3
  <2> QED
    BY <1>1, <1>3, <1>7, <2>1 DEF RunsMean
<1>9. MeaningTyped'
  BY <1>1, <1>3 DEF MeaningTyped
<1>10. FirstMeant'
  BY FirstRuns
<1>11. OpenedOnce'
  BY <1>1, OpenedRemains DEF MeaningTyped
<1>12. ASSUME line.help \/ line.words = <<>>, NEW i \in 1 .. Len(ran') PROVE ran'[i].name = <<El(Help)>>
  <2>1. Top.name = <<El(Help)>> /\ \A j \in 1 .. Len(ran) : ran[j].name = <<El(Help)>>
    BY <1>1, <1>2, <1>12 DEF HelpAlone
  <2>2. i = Len(ran) + 1 \/ i \in 1 .. Len(ran)
    BY <1>3
  <2> QED
    BY <1>3, <1>4, <2>1, <2>2
<1>13. \A f, g, next : Related(f, g, next, ran) => Related(f, g, next, ran')
  BY <1>1, MoreRan DEF MeaningTyped
<1> QED
  BY <1>3, <1>4, <1>8, <1>9, <1>10, <1>11, <1>12, <1>13


\* The frames when the innermost is in its execute and has another below it.
LEMMA FrameBelow ==
    ASSUME CommandsIInv, At("before"), NEW name, NEW args,
           frames' = Append([frames EXCEPT ![Len(frames)].at = "called"], Frame(name, args))
    PROVE  LET n == Len(frames)
               f == [name |-> Top.name, args |-> Top.args, at |-> "called", hook |-> Top.hook, index |-> Top.index]
           IN  /\ n \in Nat /\ n >= 1 /\ Len(frames') = n + 1 /\ Top = frames[n]
               /\ \A i \in 1 .. n : frames'[i] = IF i = n THEN f ELSE frames[i]
               /\ frames'[n + 1] = Frame(name, args)
<1> DEFINE n == Len(frames)
           f == [Top EXCEPT !.at = "called"]
           g == [name |-> Top.name, args |-> Top.args, at |-> "called", hook |-> Top.hook, index |-> Top.index]
           new == Frame(name, args)
<1>1. FramesShape /\ frames # <<>>
  BY DEF CommandsIInv, At
<1>2. n \in Nat /\ n \in 1 .. n /\ Top = frames[n] /\ FrameIs(Top)
  BY <1>1, Lengths
<1>3. frames' = Append([frames EXCEPT ![Len(frames)] = f], new)
  BY <1>2
<1>4. f = g
  <2>1. FrameIs(Top)
    BY <1>2
  <2> QED
    BY <2>1, FrameChanges
<1> HIDE DEF f, g, new
<1>5. /\ Len(frames') = Len(frames) + 1
      /\ \A i \in 1 .. Len(frames) : frames'[i] = IF i = Len(frames) THEN f ELSE frames[i]
      /\ frames'[Len(frames) + 1] = new
  BY <1>1, <1>3, FrameIsAdded
<1> QED
  BY <1>2, <1>4, <1>5 DEF g, new

LEMMA NewFrame ==
    ASSUME NEW name, NEW args
    PROVE  Frame(name, args).name = name /\ Frame(name, args).args = args /\ Frame(name, args).at = "try"
BY DEF Frame

\* A frame that is in its execute means what it meant before.
LEMMA CalledMeans ==
    ASSUME NEW t, NEW g, FrameMeans(t, g), t.at = "before"
    PROVE  LET f == [name |-> t.name, args |-> t.args, at |-> "called", hook |-> t.hook, index |-> t.index]
           IN  FrameMeans(f, g) /\ f.name = t.name /\ f.args = t.args
<1> DEFINE f == [name |-> t.name, args |-> t.args, at |-> "called", hook |-> t.hook, index |-> t.index]
<1>1. f.name = t.name /\ f.args = t.args /\ f.at = "called" /\ f.hook = t.hook
  OBVIOUS
<1> HIDE DEF f
<1>2. FrameMeans(f, g)
  BY <1>1 DEF FrameMeans
<1> QED
  BY <1>1, <1>2 DEF f

\* A command that executes nothing else runs.
LEMMA MeaningRuns ==
    ASSUME CommandsIInv, MeaningIInv, At("before"), Command.kind \notin {"hierarchical", "calls"},
           Goto("called"), Run, UNCHANGED <<line, noHooks>>, UNCHANGED generated, UNCHANGED opened,
           UNCHANGED commands, UNCHANGED status
    PROVE  MeaningIInv'
<1> DEFINE n == Len(frames)
           f == [Top EXCEPT !.at = "called"]
           g == [name |-> Top.name, args |-> Top.args, at |-> "called", hook |-> Top.hook, index |-> Top.index]
<1>1. /\ FramesShape /\ frames # <<>> /\ status = "runs" /\ Top.at = "before"
      /\ FramesMean /\ HelpAlone /\ Families
  BY DEF CommandsIInv, MeaningIInv, At
<1>2. n \in Nat /\ n \in 1 .. n /\ Top = frames[n] /\ FrameIs(Top)
  BY <1>1, Lengths
<1>3. ran' = Append(ran, TopRan)
  BY DEF Run, TopRan
<1>4. /\ MeaningTyped' /\ RunsMean' /\ FirstMeant' /\ OpenedOnce'
      /\ (line.help \/ line.words = <<>>) => \A i \in 1 .. Len(ran') : ran'[i].name = <<El(Help)>>
      /\ \A a, b, next : Related(a, b, next, ran) => Related(a, b, next, ran')
  BY <1>1, <1>3, OneMoreRan
<1>5. frames' = [frames EXCEPT ![Len(frames)] = f]
  BY <1>2 DEF Goto
<1>6. f = g
  <2>1. FrameIs(Top)
    BY <1>2
  <2> QED
    BY <2>1, FrameChanges
<1>7. FrameMeans(Top, generated)
  BY <1>1, <1>2 DEF FramesMean
<1>8. FrameMeans(g, generated) /\ g.name = Top.name /\ g.args = Top.args
  BY <1>1, <1>7, CalledMeans
<1>9. FrameIs(g)
  BY FrameOf DEF Places
<1> HIDE DEF f, g
<1>10. Len(frames') = n /\ \A i \in 1 .. n : frames'[i] = IF i = n THEN f ELSE frames[i]
  BY <1>1, <1>5, <1>6, <1>9, TopBecomes
<1> HIDE DEF n
<1>11. \A i \in 1 .. n : frames'[i].name = frames[i].name /\ frames'[i].args = frames[i].args
  BY <1>2, <1>6, <1>8, <1>10
<1>12. FramesMean'
  <2>1. \A i \in 1 .. n : FrameMeans(frames[i], generated)
    BY <1>1 DEF FramesMean, n
  <2>2. \A i \in 1 .. n : FrameMeans(frames'[i], generated)
    BY <1>6, <1>8, <1>10, <2>1
  <2> QED
    BY <1>10, <2>2 DEF FramesMean
<1>13. HelpAlone'
  BY <1>1, <1>4, <1>10, <1>11 DEF HelpAlone, n
<1>14. Families'
  <2> SUFFICES ASSUME NEW i \in 1 .. n, NEW j \in 1 .. n, i < j
               PROVE  Related(frames'[i], frames'[j], j = i + 1, ran')
    BY <1>10 DEF Families
  <2>1. Related(frames[i], frames[j], j = i + 1, ran)
    BY <1>1 DEF Families, n
  <2>2. Related(frames[i], frames[j], j = i + 1, ran')
    BY <1>4, <2>1
  <2> QED
    BY <1>11, <2>2 DEF Related, Hierarchy
<1> QED
  BY <1>4, <1>12, <1>13, <1>14 DEF MeaningIInv


\* A command that executes another of its own choice runs.
LEMMA MeaningCalls ==
    ASSUME CommandsIInv, MeaningIInv, At("before"), Command.kind = "calls",
           frames' = Append([frames EXCEPT ![Len(frames)].at = "called"], Frame(Command.callee, <<>>)), Run,
           UNCHANGED <<line, noHooks>>, UNCHANGED generated, UNCHANGED opened, UNCHANGED commands, UNCHANGED status
    PROVE  MeaningIInv'
<1> DEFINE n == Len(frames)
           g == [name |-> Top.name, args |-> Top.args, at |-> "called", hook |-> Top.hook, index |-> Top.index]
           callee == Command.callee
           new == Frame(callee, <<>>)
<1>1. /\ status = "runs" /\ Top.at = "before" /\ FramesMean /\ HelpAlone /\ Families /\ generated \in BOOLEAN
  BY DEF MeaningIInv, MeaningTyped, At
<1>2. /\ n \in Nat /\ n >= 1 /\ Len(frames') = n + 1 /\ Top = frames[n]
      /\ \A i \in 1 .. n : frames'[i] = IF i = n THEN g ELSE frames[i]
      /\ frames'[n + 1] = new
  BY FrameBelow
<1>3. ran' = Append(ran, TopRan)
  BY DEF Run, TopRan
<1>4. /\ MeaningTyped' /\ RunsMean' /\ FirstMeant' /\ OpenedOnce'
      /\ (line.help \/ line.words = <<>>) => \A i \in 1 .. Len(ran') : ran'[i].name = <<El(Help)>>
      /\ \A a, b, next : Related(a, b, next, ran) => Related(a, b, next, ran')
      /\ IsSequence(ran') /\ Len(ran') = Len(ran) + 1 /\ Len(ran) \in Nat
      /\ \A i \in 1 .. Len(ran) : ran'[i] = ran[i]
      /\ ran'[Len(ran) + 1].name = Top.name
  BY <1>1, <1>3, OneMoreRan
<1>5. FrameMeans(Top, generated)
  BY <1>1, <1>2 DEF FramesMean
<1>6. FrameMeans(g, generated) /\ g.name = Top.name /\ g.args = Top.args
  BY <1>1, <1>5, CalledMeans
<1>7. /\ Top.name \in DOMAIN CommandOf /\ CommandOf[Top.name].kind = "calls"
      /\ CommandOf[Top.name].callee = callee /\ callee \in Names
  <2>1. Command = Resolved(Top.name, generated) /\ Top.name \in Names
    BY <1>5, ResolveIsResolved DEF Command, FrameMeans
  <2>2. Top.name \in DOMAIN CommandOf
    BY <1>1, <2>1, ResolvesTo
  <2> QED
    BY <2>1, <2>2, RegisteredIs DEF Resolved
<1>8. new.name = callee /\ new.args = <<>> /\ new.at = "try"
  BY NewFrame
<1> HIDE DEF g, n, callee, new
<1>9. FrameMeans(new, generated)
  <2>1. <<>> \in Seq(Words)
    BY EmptySeq
  <2> QED
    BY <1>7, <1>8, <2>1 DEF FrameMeans
<1>10. \A i \in 1 .. n : frames'[i].name = frames[i].name /\ frames'[i].args = frames[i].args
  BY <1>2, <1>6
<1>11. \A i \in 1 .. n + 1 : i = n + 1 \/ i \in 1 .. n
  BY <1>2
<1>12. FramesMean'
  <2>1. \A i \in 1 .. n : FrameMeans(frames[i], generated)
    BY <1>1 DEF FramesMean, n
  <2>2. \A i \in 1 .. n + 1 : FrameMeans(frames'[i], generated)
    BY <1>2, <1>6, <1>9, <1>11, <2>1
  <2> QED
    BY <1>2, <2>2 DEF FramesMean
<1>13. HelpAlone'
  <2> SUFFICES ASSUME line.help \/ line.words = <<>> PROVE FALSE
    BY DEF HelpAlone
  <2>1. n \in 1 .. n
    BY <1>2
  <2>2. Top.name = <<El(Help)>>
    BY <1>1, <1>2, <2>1 DEF HelpAlone, n
  <2> QED
    BY <1>7, <2>2, CommandsAssumption
<1>14. ASSUME NEW i \in 1 .. n PROVE Related(frames'[i], new, n + 1 = i + 1, ran')
  <2> DEFINE l == Len(ran) + 1
  <2>1. /\ l \in 1 .. Len(ran') /\ Len(ran') = l /\ ran'[l].name = Top.name /\ l <= l
        /\ \A k \in 1 .. Len(ran) : k \in 1 .. Len(ran') /\ k <= l /\ ran'[k] = ran[k]
    BY <1>4
  <2>2. PICK k \in 1 .. Len(ran') : k <= l /\ Family(ran'[k].name) = Family(frames'[i].name)
    <3>1. frames'[i].name = frames[i].name
      BY <1>10
    <3>2. CASE Family(frames[i].name) = Family(Top.name)
      BY <2>1, <3>1, <3>2
    <3>3. CASE Family(frames[i].name) # Family(Top.name)
      <4>1. i # n
        BY <1>2, <3>3
      <4>2. i < n /\ n \in 1 .. n
        BY <1>2, <4>1
      <4>3. Related(frames[i], frames[n], n = i + 1, ran)
        BY <1>1, <4>2 DEF Families, n
      <4>4. PICK k \in 1 .. Len(ran) : Family(ran[k].name) = Family(frames[i].name)
        BY <1>2, <3>3, <4>3 DEF Related
      <4> QED
        BY <2>1, <3>1, <4>4
    <3> QED
      BY <3>2, <3>3
  <2> HIDE DEF l
  <2>3. ASSUME Family(frames'[i].name) = Family(callee) PROVE CallsOwn(ran')
    BY <1>7, <2>1, <2>2, <2>3 DEF CallsOwn
  <2> QED
    BY <1>8, <2>2, <2>3 DEF Related
<1>15. Families'
  <2> SUFFICES ASSUME NEW i \in 1 .. n + 1, NEW j \in 1 .. n + 1, i < j
               PROVE  Related(frames'[i], frames'[j], j = i + 1, ran')
    BY <1>2 DEF Families
  <2>1. i \in 1 .. n
    BY <1>2
  <2>2. CASE j = n + 1
    BY <1>2, <1>14, <2>1, <2>2
  <2>3. CASE j \in 1 .. n
    <3>1. Related(frames[i], frames[j], j = i + 1, ran)
      BY <1>1, <2>1, <2>3 DEF Families, n
    <3>2. Related(frames[i], frames[j], j = i + 1, ran')
      BY <1>4, <3>1
    <3> QED
      BY <1>10, <2>1, <2>3, <3>2 DEF Related, Hierarchy
  <2> QED
    BY <1>11, <2>2, <2>3
<1> QED
  BY <1>4, <1>12, <1>13, <1>15 DEF MeaningIInv

\* A hierarchical command executes the subcommand that is built for it.
LEMMA MeaningExecutesSub ==
    ASSUME CommandsIInv, MeaningIInv, At("before"), Command.kind = "hierarchical",
           LET sub == BuildHierarchicalCommand(Top.name, Top.args)[1]
           IN  frames' = Append([frames EXCEPT ![Len(frames)].at = "called"], Frame(sub.name, sub.args)),
           UNCHANGED <<line, noHooks>>, UNCHANGED ran, UNCHANGED generated, UNCHANGED opened, UNCHANGED commands,
           UNCHANGED status
    PROVE  MeaningIInv'
<1> DEFINE n == Len(frames)
           g == [name |-> Top.name, args |-> Top.args, at |-> "called", hook |-> Top.hook, index |-> Top.index]
           b == BuildHierarchicalCommand(Top.name, Top.args)
           sub == b[1]
           new == Frame(sub.name, sub.args)
<1>1. /\ status = "runs" /\ Top.at = "before" /\ FramesMean /\ HelpAlone /\ Families /\ MeaningTyped /\ RunsMean
      /\ FirstMeant /\ OpenedOnce /\ generated \in BOOLEAN
  BY DEF MeaningIInv, MeaningTyped, At
<1>2. /\ n \in Nat /\ n >= 1 /\ Len(frames') = n + 1 /\ Top = frames[n]
      /\ \A i \in 1 .. n : frames'[i] = IF i = n THEN g ELSE frames[i]
      /\ frames'[n + 1] = new
  BY FrameBelow
<1>3. FrameMeans(Top, generated)
  BY <1>1, <1>2 DEF FramesMean
<1>4. FrameMeans(g, generated) /\ g.name = Top.name /\ g.args = Top.args
  BY <1>1, <1>3, CalledMeans
<1>5. Top.name \in Names /\ Top.args \in Seq(Words) /\ Top.name \notin DOMAIN CommandOf /\ b # <<>>
  <2>1. Command = Resolved(Top.name, generated) /\ Top.name \in Names
    BY <1>3, ResolveIsResolved DEF Command, FrameMeans
  <2>2. SubCommands(Top.name) # {} /\ Top.name \notin DOMAIN CommandOf
    <3>1. Top.name \notin DOMAIN CommandOf
      BY <1>1, <2>1, ResolvesTo
    <3>2. NoCommand.kind # "hierarchical"
      BY DEF NoCommand
    <3> QED
      BY <1>1, <2>1, <3>1, <3>2, ResolvesTo
  <2> QED
    BY <1>1, <1>3, <2>2 DEF FrameMeans, Checked
<1>6. PICK i \in SubCommands(Top.name), a \in Seq(Words) : b = <<[name |-> Required[i], args |-> a]>>
  BY <1>5, BuiltIs
<1>7. sub.name = Required[i] /\ sub.args = a /\ b = <<[name |-> sub.name, args |-> sub.args]>>
  <2> HIDE DEF b
  <2> QED
    BY <1>6
<1>8. /\ sub.name \in Names /\ sub.name \in DOMAIN CommandOf /\ Family(sub.name) = Family(Top.name)
      /\ sub.args \in Seq(Words)
  <2>1. /\ i \in DOMAIN Required /\ Required[i] \in DOMAIN CommandOf /\ Top.name[1] = Required[i][1]
        /\ Required[i] \in Names
    BY SubCommandIs, RegisteredIs
  <2> HIDE DEF sub
  <2> QED
    BY <1>7, <2>1 DEF Family
<1>9. new.name = sub.name /\ new.args = sub.args /\ new.at = "try"
  BY NewFrame
<1>10. Hierarchy(Top, new)
  <2> HIDE DEF new, sub
  <2> QED
    BY <1>7, <1>9 DEF Hierarchy
<1> HIDE DEF g, n, b, sub, new
<1>11. FrameMeans(new, generated)
  BY <1>8, <1>9 DEF FrameMeans
<1>12. \A j \in 1 .. n : frames'[j].name = frames[j].name /\ frames'[j].args = frames[j].args
  BY <1>2, <1>4
<1>13. \A j \in 1 .. n + 1 : j = n + 1 \/ j \in 1 .. n
  BY <1>2
<1>14. FramesMean'
  <2>1. \A j \in 1 .. n : FrameMeans(frames[j], generated)
    BY <1>1 DEF FramesMean, n
  <2>2. \A j \in 1 .. n + 1 : FrameMeans(frames'[j], generated)
    BY <1>2, <1>4, <1>11, <1>13, <2>1
  <2> QED
    BY <1>2, <2>2 DEF FramesMean
<1>15. HelpAlone'
  <2> SUFFICES ASSUME line.help \/ line.words = <<>> PROVE FALSE
    BY DEF HelpAlone
  <2>1. n \in 1 .. n
    BY <1>2
  <2>2. Top.name = <<El(Help)>>
    BY <1>1, <1>2, <2>1 DEF HelpAlone, n
  <2> QED
    BY <1>5, <2>2, CommandsAssumption
<1>16. ASSUME NEW j \in 1 .. n PROVE Related(frames'[j], new, n + 1 = j + 1, ran)
  <2>1. CASE j = n
    <3>1. Family(frames'[j].name) = Family(new.name) /\ Hierarchy(frames'[j], new)
      BY <1>2, <1>8, <1>9, <1>10, <1>12, <2>1 DEF Hierarchy
    <3> QED
      BY <2>1, <3>1 DEF Related
  <2>2. CASE j # n
    <3>1. j < n /\ n \in 1 .. n
      BY <1>2, <2>2
    <3>2. Related(frames[j], Top, n = j + 1, ran)
      BY <1>1, <1>2, <3>1 DEF Families, n
    <3>3. ~ Hierarchy(frames[j], Top)
      <4>1. frames[j].args \in Seq(Words)
        BY <1>1 DEF FramesMean, FrameMeans, n
      <4> QED
        BY <1>5, <4>1, SubcommandIsRegistered
    <3>4. /\ Family(frames[j].name) = Family(Top.name) \/ \E k \in 1 .. Len(ran) : Family(ran[k].name) = Family(frames[j].name)
          /\ Family(frames[j].name) = Family(Top.name) => CallsOwn(ran)
      BY <3>2, <3>3 DEF Related
    <3> QED
      BY <1>8, <1>9, <1>12, <3>4 DEF Related
  <2> QED
    BY <2>1, <2>2
<1>17. Families'
  <2> SUFFICES ASSUME NEW j \in 1 .. n + 1, NEW k \in 1 .. n + 1, j < k
               PROVE  Related(frames'[j], frames'[k], k = j + 1, ran)
    BY <1>2, SMTT(30) DEF Families
  <2>1. j \in 1 .. n
    BY <1>2
  <2>2. CASE k = n + 1
    BY <1>2, <1>16, <2>1, <2>2
  <2>3. CASE k \in 1 .. n
    <3>1. Related(frames[j], frames[k], k = j + 1, ran)
      BY <1>1, <2>1, <2>3 DEF Families, n
    <3> QED
      BY <1>12, <2>1, <2>3, <3>1 DEF Related, Hierarchy
  <2> QED
    BY <1>13, <2>2, <2>3
<1>18. FirstMeant'
  <2> SUFFICES ASSUME ~line.help, line.words # <<>>, Len(ran) = 0
               PROVE  /\ Len(frames') <= 2
                      /\ Len(frames') >= 1 =>
                           /\ frames'[1].name = <<El(Lower[line.words[1]])>>
                           /\ frames'[1].args = Tail(line.words)
                      /\ Len(frames') = 2 => Hierarchy(frames'[1], frames'[2])
    BY <1>1 DEF FirstMeant
  <2>1. /\ n <= 2
        /\ frames[1].name = <<El(Lower[line.words[1]])>> /\ frames[1].args = Tail(line.words)
        /\ n = 2 => Hierarchy(frames[1], frames[2])
    BY <1>1, <1>2 DEF FirstMeant, n
  <2>2. n # 2
    <3> SUFFICES ASSUME n = 2 PROVE FALSE
      OBVIOUS
    <3>1. 1 \in 1 .. n /\ 1 < n /\ n \in 1 .. n
      BY <1>2
    <3>2. Hierarchy(frames[1], Top)
      BY <1>2, <2>1
    <3>3. frames[1].args \in Seq(Words)
      BY <1>1, <3>1 DEF FramesMean, FrameMeans, n
    <3> QED
      BY <1>5, <3>2, <3>3, SubcommandIsRegistered
  <2>3. n = 1
    BY <1>2, <2>1, <2>2
  <2>4. Len(frames') = 2 /\ 1 \in 1 .. n
    BY <1>2, <2>3
  <2>5. frames'[1].name = Top.name /\ frames'[1].args = Top.args /\ frames'[2] = new
    BY <1>2, <1>4, <2>3, <2>4
  <2>6. Hierarchy(frames'[1], frames'[2])
    BY <1>10, <2>5 DEF Hierarchy
  <2> QED
    BY <1>12, <2>1, <2>4, <2>6
<1>19. MeaningTyped' /\ RunsMean' /\ OpenedOnce'
  BY <1>1 DEF MeaningTyped, RunsMean, OpenedOnce
<1> QED
  BY <1>14, <1>15, <1>17, <1>18, <1>19 DEF MeaningIInv


\* A line is dispatched.
LEMMA MeaningDispatch ==
    ASSUME CommandsIInv, MeaningIInv, NEW words \in Line, NEW help \in BOOLEAN, DispatchCommand(words, help)
    PROVE  MeaningIInv'
<1> DEFINE name == IF words = <<>> THEN EmptyWord ELSE Lower[words[1]]
           args == IF words = <<>> THEN <<>> ELSE Tail(words)
           asks == help \/ words = <<>>
           f == IF asks THEN Frame(<<El(Help)>>, <<name>> \o args) ELSE Frame(<<El(name)>>, args)
<1>1. /\ status = "waits" /\ frames' = <<f>> /\ line' = [words |-> words, help |-> help] /\ status' = "runs"
      /\ UNCHANGED <<commands, generated, noHooks, ran, opened>>
  BY DEF DispatchCommand, commandsHistory
<1>2. /\ Len(ran) = 0 /\ Len(opened) = 0 /\ MeaningTyped
  BY <1>1 DEF CommandsIInv, MeaningIInv, MeaningTyped
<1>3. words \in Seq(Words)
  <2> DEFINE l == [words |-> words, help |-> help]
  <2>1. l \in [words : Line, help : BOOLEAN] /\ l.words = words
    OBVIOUS
  <2> HIDE DEF l
  <2> QED
    BY <2>1, LineIs
<1>4. name \in Words
  <2>1. words # <<>> => words[1] \in Words
    <3>1. words # <<>> => 1 \in 1 .. Len(words)
      BY <1>3, LenProperties, EmptySeq
    <3> QED
      BY <1>3, <3>1, LenProperties
  <2> QED
    BY <2>1, CommandsAssumption
<1>5. args \in Seq(Words)
  BY <1>3, TailOf, EmptySeq
<1>6. <<name>> \o args \in Seq(Words)
  <2> HIDE DEF name, args
  <2>1. <<name>> \in Seq(Words)
    BY <1>4
  <2> QED
    BY <1>5, <2>1, ConcatProperties
<1>7. <<El(name)>> \in Names /\ <<El(Help)>> \in Names
  <2>1. El(name) \in Elements /\ El(Help) \in Elements
    BY <1>4, CommandsAssumption DEF El, Elements
  <2> HIDE DEF name
  <2> DEFINE a == El(name)
             b == El(Help)
  <2> HIDE DEF a, b
  <2>2. <<a>> \in Seq(Elements) /\ <<a>> # <<>> /\ <<b>> \in Seq(Elements) /\ <<b>> # <<>>
    BY <2>1 DEF a, b
  <2> QED
    BY <2>2 DEF Names, a, b
<1>8. /\ f.at = "try"
      /\ f.name = IF asks THEN <<El(Help)>> ELSE <<El(name)>>
      /\ f.args = IF asks THEN <<name>> \o args ELSE args
  BY NewFrame
<1> HIDE DEF f
<1>9. Len(frames') = 1 /\ frames'[1] = f /\ \A i \in 1 .. 1 : i = 1
  <2>1. Len(<<f>>) = 1 /\ <<f>>[1] = f
    OBVIOUS
  <2> QED
    BY <1>1, <2>1
<1>10. FrameMeans(f, generated)
  BY <1>5, <1>6, <1>7, <1>8 DEF FrameMeans
<1>11. line'.words = words /\ line'.help = help /\ line' \in [words : Line, help : BOOLEAN]
  BY <1>1
<1>12. MeaningTyped'
  BY <1>1, <1>2, <1>11 DEF MeaningTyped
<1>13. FramesMean'
  BY <1>1, <1>9, <1>10 DEF FramesMean
<1>14. RunsMean' /\ OpenedOnce'
  BY <1>1, <1>2 DEF RunsMean, OpenedOnce
<1>15. HelpAlone'
  BY <1>1, <1>2, <1>8, <1>9, <1>11 DEF HelpAlone
<1>16. FirstMeant'
  <2> SUFFICES ASSUME ~help, words # <<>>
               PROVE  frames'[1].name = <<El(Lower[words[1]])>> /\ frames'[1].args = Tail(words)
    BY <1>1, <1>2, <1>9, <1>11 DEF FirstMeant
  <2> QED
    BY <1>8, <1>9
<1>17. Families'
  BY <1>9 DEF Families
<1> QED
  BY <1>12, <1>13, <1>14, <1>15, <1>16, <1>17 DEF MeaningIInv

\* The hooks of a command begin.
LEMMA MeaningBegins ==
    ASSUME CommandsIInv, MeaningIInv, BeginBeforeHooks
    PROVE  MeaningIInv'
<1> DEFINE n == Len(frames)
           hook == IF Command.hooks THEN HookName(Top.name, Top.args) ELSE <<>>
           f == [Top EXCEPT !.at = "before", !.hook = hook]
           g == [name |-> Top.name, args |-> Top.args, at |-> "before", hook |-> hook, index |-> Top.index]
<1>1. /\ status = "runs" /\ Top.at = "tracked" /\ frames # <<>> /\ frames' = [frames EXCEPT ![Len(frames)] = f]
      /\ opened' = Append(opened, hook)
      /\ UNCHANGED <<commands, generated, noHooks, line, status, ran>>
  BY DEF BeginBeforeHooks, At
<1>2. /\ FramesShape /\ Counted /\ IsSequence(opened)
      /\ MeaningTyped /\ FramesMean /\ Families /\ OpenedOnce /\ RunsMean
  BY <1>1 DEF CommandsIInv, FramesShape, MeaningIInv
<1>3. n \in Nat /\ n \in 1 .. n /\ Top = frames[n] /\ FrameIs(Top)
  BY <1>1, <1>2, Lengths
<1>4. f = g
  <2> HIDE DEF hook
  <2>1. FrameIs(Top)
    BY <1>3
  <2> QED
    BY <2>1, FrameHooked
<1>5. FrameMeans(Top, generated)
  BY <1>2, <1>3 DEF FramesMean
<1>6. FrameIs(g) /\ g.name = Top.name /\ g.args = Top.args /\ g.at = "before" /\ g.hook = hook
  BY FrameOf DEF Places
<1>7. hook \in {<<>>, HookName(Top.name, Top.args)}
  OBVIOUS
<1> HIDE DEF f, g, hook
<1>8. FrameMeans(g, generated)
  BY <1>1, <1>5, <1>6, <1>7 DEF FrameMeans
<1>9. Len(frames') = n /\ \A i \in 1 .. n : frames'[i] = IF i = n THEN g ELSE frames[i]
  BY <1>1, <1>2, <1>4, <1>6, TopBecomes
<1>10. \A i \in 1 .. Len(frames') : frames'[i].name = frames[i].name /\ frames'[i].args = frames[i].args
  BY <1>3, <1>6, <1>9
<1>11. HelpAlone' /\ FirstMeant' /\ Families'
  <2>1. Len(frames') \in 0 .. Len(frames)
    BY <1>3, <1>9
  <2>2. UNCHANGED <<line, ran>>
    BY <1>1, SMTT(30)
  <2> QED
    BY <1>2, <1>10, <2>1, <2>2, FramesNarrow
<1>12. FramesMean'
  <2>1. \A i \in 1 .. n : FrameMeans(frames[i], generated)
    BY <1>2 DEF FramesMean
  <2>2. \A i \in 1 .. n : FrameMeans(frames'[i], generated)
    BY <1>8, <1>9, <2>1
  <2> QED
    BY <1>1, <1>9, <2>2, ZenonT(30) DEF FramesMean
<1>13. MeaningTyped' /\ RunsMean'
  BY <1>1, <1>2 DEF MeaningTyped, RunsMean
<1>14. /\ Len(opened) = n - 1 /\ Len(opened') = n
       /\ \A i \in 1 .. n - 1 : opened'[i] = opened[i] /\ opened[i] = frames[i].hook
       /\ opened'[n] = hook
  <2>1. Len(opened) = n - 1 /\ \A i \in 1 .. n : i <= Len(opened) => opened[i] = frames[i].hook
    BY <1>1, <1>2 DEF Counted
  <2>2. /\ Len(opened') = Len(opened) + 1 /\ opened'[Len(opened) + 1] = hook
        /\ \A i \in 1 .. Len(opened) : opened'[i] = opened[i]
    BY <1>1, <1>2, AppendedSequence
  <2> HIDE DEF n
  <2>3. Len(opened) + 1 = n /\ \A i \in 1 .. n - 1 : i \in 1 .. n /\ i <= Len(opened)
    BY <1>3, <2>1
  <2> QED
    BY <2>1, <2>2, <2>3
<1>15. ASSUME NEW i \in 1 .. n - 1, opened'[i] = hook, hook # <<>> PROVE CallsOwn(ran)
  <2>1. i \in 1 .. n /\ i < n
    BY <1>3
  <2>2. frames[i].at = "called"
    BY <1>2, <2>1 DEF FramesShape
  <2>3. FrameMeans(frames[i], generated) /\ Related(frames[i], Top, n = i + 1, ran)
    BY <1>2, <1>3, <2>1 DEF FramesMean, Families
  <2>4. HookName(frames[i].name, frames[i].args) = HookName(Top.name, Top.args)
    BY <1>7, <1>14, <1>15, <2>2, <2>3 DEF FrameMeans
  <2> QED
    BY <1>5, <2>3, <2>4, OtherHooks DEF FrameMeans
<1>16. OpenedOnce'
  <2> SUFFICES ASSUME NEW i \in 1 .. n, NEW j \in 1 .. n, opened'[i] = opened'[j], opened'[i] # <<>>, i # j
               PROVE  CallsOwn(ran')
    BY <1>14 DEF OpenedOnce
  <2> HIDE DEF n
  <2>1. \A k \in 1 .. n : k = n \/ k \in 1 .. n - 1
    BY <1>3
  <2>2. CASE i = n
    <3>1. j \in 1 .. n - 1
      BY <2>1, <2>2
    <3> QED
      BY <1>1, <1>14, <1>15, <2>2, <3>1
  <2>3. CASE j = n
    <3>1. i \in 1 .. n - 1
      BY <2>1, <2>3
    <3> QED
      BY <1>1, <1>14, <1>15, <2>3, <3>1
  <2>4. CASE i \in 1 .. n - 1 /\ j \in 1 .. n - 1
    BY <1>1, <1>2, <1>14, <2>4 DEF OpenedOnce
  <2> QED
    BY <2>1, <2>2, <2>3, <2>4
<1> QED
  BY <1>11, <1>12, <1>13, <1>16 DEF MeaningIInv


\* The innermost frame is at another place, with the name, the arguments and the hooks it has.
LEMMA MeaningMoves ==
    ASSUME CommandsIInv, MeaningIInv, status = "runs", NEW f, FrameIs(f),
           f.name = Top.name, f.args = Top.args, f.hook = Top.hook,
           f.at # "try" => Checked(Top.name, Top.args, generated),
           f.at \in {"before", "called", "posted", "after"} => Top.at \in {"before", "called", "posted", "after"},
           frames' = [frames EXCEPT ![Len(frames)] = f],
           UNCHANGED <<line, ran, noHooks>>, UNCHANGED generated, UNCHANGED opened, status' = "runs"
    PROVE  MeaningIInv'
<1>1. FramesShape /\ frames # <<>> /\ FramesMean
  BY DEF CommandsIInv, FramesShape, MeaningIInv
<1>2. FrameMeans(Top, generated)
  BY <1>1, Lengths DEF FramesMean
<1>3. FrameMeans(f, generated)
  BY <1>2 DEF FrameMeans
<1> QED
  BY <1>3, MeaningGoesOn

LEMMA MeaningGoto ==
    ASSUME CommandsIInv, MeaningIInv, status = "runs", NEW place \in Places, place # "try", Goto(place),
           Checked(Top.name, Top.args, generated),
           place \in {"before", "called", "posted", "after"} => Top.at \in {"before", "called", "posted", "after"},
           UNCHANGED <<line, ran, noHooks>>, UNCHANGED generated, UNCHANGED opened, UNCHANGED status
    PROVE  MeaningIInv'
<1> DEFINE f == [Top EXCEPT !.at = place]
           g == [name |-> Top.name, args |-> Top.args, at |-> place, hook |-> Top.hook, index |-> Top.index]
<1>1. FramesShape /\ frames # <<>>
  BY DEF CommandsIInv, FramesShape
<1>2. Top = frames[Len(frames)] /\ FrameIs(Top) /\ Len(frames) \in 1 .. Len(frames)
  BY <1>1, Lengths
<1>3. frames' = [frames EXCEPT ![Len(frames)] = f]
  BY <1>2 DEF Goto
<1>4. f = g
  BY <1>2, FrameChanges
<1>5. FrameIs(g) /\ g.name = Top.name /\ g.args = Top.args /\ g.at = place /\ g.hook = Top.hook
  BY FrameOf
<1> HIDE DEF f, g
<1> QED
  BY <1>3, <1>4, <1>5, MeaningMoves

\* A frame past its validation was checked.
LEMMA TopChecked ==
    ASSUME CommandsIInv, MeaningIInv, status = "runs"
    PROVE  /\ Top.name \in Names /\ Top.args \in Seq(Words) /\ generated \in BOOLEAN
           /\ Command = Resolved(Top.name, generated)
           /\ Top.at # "try" => Checked(Top.name, Top.args, generated)
<1>1. FramesShape /\ frames # <<>> /\ FramesMean /\ generated \in BOOLEAN
  BY DEF CommandsIInv, FramesShape, MeaningIInv, MeaningTyped
<1>2. FrameMeans(Top, generated)
  BY <1>1, Lengths DEF FramesMean
<1> QED
  BY <1>1, <1>2, ResolveIsResolved DEF FrameMeans, Command

\* Arguments that are valid for the command, or for its subcommands, are checked.
LEMMA ValidIsChecked ==
    ASSUME CommandsIInv, MeaningIInv, status = "runs", Command # NoCommand,
           Command.canExecute \/ ArgumentsAreValid
    PROVE  Checked(Top.name, Top.args, generated)
<1>1. /\ Top.name \in Names /\ Top.args \in Seq(Words) /\ generated \in BOOLEAN
      /\ Command = Resolved(Top.name, generated)
  BY TopChecked
<1>2. CASE Top.name \in DOMAIN CommandOf
  <2>1. Command = CommandOf[Top.name] /\ SubCommands(Top.name) = {} /\ Command.params \in Seq(Parameters)
    BY <1>1, <1>2, ResolvesTo, RegisteredIs
  <2>2. ~Command.canExecute => Fits(Top.args, Command.params)
    BY <1>1, <2>1, ValidFit DEF ArgumentsAreValid
  <2> QED
    BY <1>2, <2>1, <2>2 DEF Checked
<1>3. CASE SubCommands(Top.name) # {}
  <2>1. Command.canExecute = FALSE
    BY <1>1, <1>3, ResolvesTo
  <2>2. BuildHierarchicalCommand(Top.name, Top.args) # <<>>
    BY <1>3, <2>1 DEF ArgumentsAreValid
  <2> QED
    BY <1>3, <2>2 DEF Checked
<1>4. CASE Top.name \notin DOMAIN CommandOf /\ SubCommands(Top.name) = {}
  BY <1>1, <1>4, ResolvesTo DEF Checked
<1> QED
  BY <1>2, <1>3, <1>4

LEMMA MeaningStart ==
    ASSUME CommandsIInv, MeaningIInv, Start
    PROVE  MeaningIInv'
<1>1. status = "runs" /\ Top.at = "start" /\ frames # <<>>
  BY DEF Start, At
<1>2. Checked(Top.name, Top.args, generated) /\ generated \in BOOLEAN
  BY <1>1, TopChecked
<1>3. CASE Goto("tracked") /\ UNCHANGED <<generated, noHooks, line, status, helpShown, commandsHistory>>
  <2>1. /\ UNCHANGED <<line, ran, noHooks>> /\ UNCHANGED generated /\ UNCHANGED opened /\ UNCHANGED status
    BY <1>3 DEF commandsHistory
  <2>2. "tracked" \in Places
    BY DEF Places
  <2> QED
    BY <1>1, <1>2, <1>3, <2>1, <2>2, MeaningGoto
<1>4. CASE status' = "exit" /\ UNCHANGED <<frames, generated, noHooks, line, commandsHistory>>
  <2>1. /\ UNCHANGED frames /\ UNCHANGED <<line, ran, noHooks>> /\ UNCHANGED generated /\ UNCHANGED opened
    BY <1>4 DEF commandsHistory
  <2>2. Len(commands') <= Len(frames)
    <3>1. IsSequence(commands) /\ Len(commands) = Len(frames) - 1 /\ Len(frames) \in Nat
      BY <1>1, Lengths DEF CommandsIInv, Counted, FramesShape
    <3>2. commands' = Append(commands, TopRan)
      BY DEF Start, TopRan
    <3>3. Len(commands') = Len(commands) + 1
      BY <3>1, <3>2, AppendedSequence
    <3> QED
      BY <3>1, <3>3
  <2> QED
    BY <1>1, <1>2, <1>4, <2>1, <2>2, MeaningHere
<1> QED
  BY <1>3, <1>4 DEF Start

LEMMA MeaningAfter ==
    ASSUME CommandsIInv, MeaningIInv, BeginAfterHooks
    PROVE  MeaningIInv'
<1> DEFINE f == [Top EXCEPT !.at = "after", !.index = 0]
           g == [name |-> Top.name, args |-> Top.args, at |-> "after", hook |-> Top.hook, index |-> 0]
<1>1. /\ status = "runs" /\ Top.at = "posted" /\ frames # <<>> /\ frames' = [frames EXCEPT ![Len(frames)] = f]
      /\ UNCHANGED <<line, ran, noHooks>> /\ UNCHANGED generated /\ UNCHANGED opened /\ status' = "runs"
  BY DEF BeginAfterHooks, At
<1>2. FrameIs(Top) /\ Checked(Top.name, Top.args, generated)
  BY <1>1, TopChecked, Lengths DEF CommandsIInv
<1>3. f = g
  <2>1. FrameIs(Top)
    BY <1>2
  <2> QED
    BY <2>1, FrameIndexed
<1>4. FrameIs(g) /\ g.name = Top.name /\ g.args = Top.args /\ g.at = "after" /\ g.hook = Top.hook
  BY FrameOf DEF Places
<1> HIDE DEF f, g
<1> QED
  BY <1>1, <1>2, <1>3, <1>4, MeaningMoves

LEMMA MeaningHook ==
    ASSUME CommandsIInv, MeaningIInv, RunHook
    PROVE  MeaningIInv'
<1> DEFINE hooks == HooksOf(Top.at, Top.hook)
           hook == hooks[Top.index + 1]
           k == IF hook = "invalid" THEN Len(hooks) ELSE Top.index + 1
           f == [Top EXCEPT !.index = k]
           g == [name |-> Top.name, args |-> Top.args, at |-> Top.at, hook |-> Top.hook, index |-> k]
<1>1. status = "runs" /\ Top.at \in {"before", "after"} /\ frames # <<>>
  BY DEF RunHook, At
<1>2. /\ FrameIs(Top) /\ Checked(Top.name, Top.args, generated) /\ Top = frames[Len(frames)]
      /\ Len(frames) \in 1 .. Len(frames)
  BY <1>1, TopChecked, Lengths DEF CommandsIInv
<1>3. CASE /\ frames' = [frames EXCEPT ![Len(frames)].index = IF hook = "invalid" THEN Len(hooks) ELSE @ + 1]
           /\ UNCHANGED <<commands, generated, noHooks, line, status, helpShown, commandsHistory>>
  <2>1. frames' = [frames EXCEPT ![Len(frames)] = f]
    BY <1>2, <1>3
  <2>2. f = g
    <3> HIDE DEF k
    <3> QED
      BY <1>2, FrameChanges
  <2>3. FrameIs(g) /\ g.name = Top.name /\ g.args = Top.args /\ g.at = Top.at /\ g.hook = Top.hook
    <3>1. Top.at \in Places
      BY <1>1 DEF Places
    <3> HIDE DEF k
    <3> QED
      BY <3>1, FrameOf
  <2>4. UNCHANGED <<line, ran, noHooks>> /\ UNCHANGED generated /\ UNCHANGED opened /\ status' = "runs"
    BY <1>1, <1>3 DEF commandsHistory
  <2> HIDE DEF f, g, k
  <2> QED
    BY <1>1, <1>2, <2>1, <2>2, <2>3, <2>4, MeaningMoves
<1>4. CASE Throw(TRUE)
  BY <1>1, <1>4, MeaningThrow
<1> QED
  BY <1>3, <1>4 DEF RunHook


LEMMA MeaningBegin == CommandsInit => MeaningIInv
<1> SUFFICES ASSUME CommandsInit PROVE MeaningIInv
  OBVIOUS
<1>1. /\ frames = <<>> /\ ran = <<>> /\ opened = <<>> /\ generated = FALSE /\ noHooks \in BOOLEAN
      /\ line = [words |-> <<>>, help |-> FALSE] /\ status = "waits"
  BY DEF CommandsInit
<1>2. Len(frames) = 0 /\ Len(ran) = 0 /\ Len(opened) = 0 /\ IsSequence(ran)
  BY <1>1, EmptySequence
<1>3. line \in [words : Line, help : BOOLEAN]
  <2>1. <<>> \in [1 .. 0 -> Words] /\ 0 \in 0 .. MaxWords
    BY CommandsAssumption
  <2>2. <<>> \in Line
    BY <2>1 DEF Line, SeqOf
  <2> QED
    BY <1>1, <2>2
<1>4. line.words = <<>>
  BY <1>1
<1>5. MeaningTyped
  BY <1>1, <1>2, <1>3 DEF MeaningTyped
<1> QED
  BY <1>2, <1>4, <1>5 DEF MeaningIInv, FramesMean, RunsMean, HelpAlone, FirstMeant, Families, OpenedOnce

LEMMA MeaningStep ==
    ASSUME CommandsIInv, MeaningIInv, [CommandsNext]_commandsVars
    PROVE  MeaningIInv'
<1>0. "start" \in Places /\ "called" \in Places /\ "posted" \in Places
  BY DEF Places
<1>1. ASSUME NEW words \in Line, NEW help \in BOOLEAN, DispatchCommand(words, help) PROVE MeaningIInv'
  BY <1>1, MeaningDispatch
<1>2. CASE OptionsInvalid
  BY <1>2, MeaningThrow DEF OptionsInvalid, At
<1>3. CASE GenerateDynamicCommands
  <2>1. /\ status = "runs" /\ UNCHANGED frames /\ UNCHANGED <<line, ran, noHooks>> /\ UNCHANGED opened
        /\ generated' = TRUE /\ status' = "runs"
    BY <1>3 DEF GenerateDynamicCommands, commandsHistory, At
  <2> QED
    BY <2>1, MeaningHere
<1>4. CASE UnknownCommand
  <2>1. status = "runs" /\ Return /\ UNCHANGED ran /\ UNCHANGED opened
    BY <1>4 DEF UnknownCommand, At, commandsHistory
  <2> QED
    BY <2>1, MeaningReturn
<1>5. CASE Validate
  <2>1. status = "runs" /\ Top.at = "try" /\ Command # NoCommand
    BY <1>5 DEF Validate, At
  <2>2. CASE Throw(TRUE) \/ Throw(FALSE)
    BY <2>1, <2>2, MeaningThrow
  <2>3. CASE /\ ArgumentsAreValid /\ Goto("start")
             /\ UNCHANGED <<commands, generated, noHooks, line, status, helpShown, commandsHistory>>
    <3>1. UNCHANGED <<line, ran, noHooks>> /\ UNCHANGED generated /\ UNCHANGED opened /\ UNCHANGED status
      BY <2>3 DEF commandsHistory
    <3>2. Checked(Top.name, Top.args, generated)
      BY <2>1, <2>3, ValidIsChecked
    <3> QED
      BY <1>0, <2>1, <2>3, <3>1, <3>2, MeaningGoto
  <2> QED
    BY <1>5, <2>2, <2>3 DEF Validate
<1>6. CASE AskCommand
  <2>1. status = "runs" /\ Top.at = "try" /\ Command # NoCommand /\ Command.canExecute
    BY <1>6 DEF AskCommand, At
  <2>2. CASE Goto("start") /\ UNCHANGED <<commands, generated, noHooks, line, status, helpShown, commandsHistory>>
    <3>1. UNCHANGED <<line, ran, noHooks>> /\ UNCHANGED generated /\ UNCHANGED opened /\ UNCHANGED status
      BY <2>2 DEF commandsHistory
    <3>2. Checked(Top.name, Top.args, generated)
      BY <2>1, ValidIsChecked
    <3> QED
      BY <1>0, <2>1, <2>2, <3>1, <3>2, MeaningGoto
  <2>3. ASSUME NEW suppressHelp \in BOOLEAN, Throw(suppressHelp) PROVE MeaningIInv'
    BY <2>1, <2>3, MeaningThrow
  <2>4. CASE Return /\ UNCHANGED <<commands, commandsHistory>>
    <3>1. UNCHANGED ran /\ UNCHANGED opened
      BY <2>4 DEF commandsHistory
    <3> QED
      BY <2>1, <2>4, <3>1, MeaningReturn
  <2> QED
    BY <1>6, <2>2, <2>3, <2>4 DEF AskCommand
<1>7. CASE Execute
  <2>1. status = "runs" /\ At("before")
    BY <1>7 DEF Execute, At
  <2>2. CASE /\ Command.kind = "hierarchical"
             /\ LET sub == BuildHierarchicalCommand(Top.name, Top.args)[1]
                IN  frames' = Append([frames EXCEPT ![Len(frames)].at = "called"], Frame(sub.name, sub.args))
             /\ UNCHANGED <<commands, generated, noHooks, line, status, helpShown, commandsHistory>>
    <3>1. /\ UNCHANGED <<line, noHooks>> /\ UNCHANGED ran /\ UNCHANGED generated /\ UNCHANGED opened
          /\ UNCHANGED commands /\ UNCHANGED status
      BY <2>2 DEF commandsHistory
    <3> QED
      BY <2>1, <2>2, <3>1, MeaningExecutesSub
  <2>3. CASE /\ Command.kind = "calls"
             /\ frames' = Append([frames EXCEPT ![Len(frames)].at = "called"], Frame(Command.callee, <<>>))
             /\ Run
             /\ UNCHANGED <<commands, generated, noHooks, line, status, helpShown, opened, closed>>
    <3>1. /\ UNCHANGED <<line, noHooks>> /\ UNCHANGED generated /\ UNCHANGED opened
          /\ UNCHANGED commands /\ UNCHANGED status
      BY <2>3
    <3> QED
      BY <2>1, <2>3, <3>1, MeaningCalls
  <2>4. CASE /\ Command.kind \notin {"hierarchical", "calls"} /\ Goto("called") /\ Run
             /\ UNCHANGED <<commands, generated, noHooks, line, status, helpShown, opened, closed>>
    <3>1. /\ UNCHANGED <<line, noHooks>> /\ UNCHANGED generated /\ UNCHANGED opened
          /\ UNCHANGED commands /\ UNCHANGED status
      BY <2>4
    <3> QED
      BY <2>1, <2>4, <3>1, MeaningRuns
  <2>5. ASSUME NEW suppressHelp \in BOOLEAN, Throw(suppressHelp) PROVE MeaningIInv'
    BY <2>1, <2>5, MeaningThrow
  <2> QED
    BY <1>7, <2>2, <2>3, <2>4, <2>5 DEF Execute
<1>8. CASE PostCommandAction
  <2>1. status = "runs" /\ Top.at = "called"
    BY <1>8 DEF PostCommandAction, At
  <2>2. CASE Goto("posted") /\ UNCHANGED <<commands, generated, noHooks, line, status, helpShown, commandsHistory>>
    <3>1. UNCHANGED <<line, ran, noHooks>> /\ UNCHANGED generated /\ UNCHANGED opened /\ UNCHANGED status
      BY <2>2 DEF commandsHistory
    <3>2. Checked(Top.name, Top.args, generated)
      BY <2>1, TopChecked
    <3> QED
      BY <1>0, <2>1, <2>2, <3>1, <3>2, MeaningGoto
  <2>3. ASSUME NEW suppressHelp \in BOOLEAN, Throw(suppressHelp) PROVE MeaningIInv'
    BY <2>1, <2>3, MeaningThrow
  <2> QED
    BY <1>8, <2>2, <2>3 DEF PostCommandAction
<1>9. CASE Finish
  <2>1. status = "runs" /\ Return /\ UNCHANGED ran /\ UNCHANGED opened
    BY <1>9 DEF Finish, At, commandsHistory
  <2> QED
    BY <2>1, MeaningReturn
<1>10. CASE UNCHANGED commandsVars
  <2>1. UNCHANGED <<frames, commands, generated, noHooks, line, status, ran, opened>>
    BY <1>10 DEF commandsVars, commandsHistory
  <2> QED
    BY <2>1 DEF MeaningIInv, MeaningTyped, FramesMean, RunsMean, HelpAlone, FirstMeant, Families, OpenedOnce
<1> QED
  BY <1>1, <1>2, <1>3, <1>4, <1>5, <1>6, <1>7, <1>8, <1>9, <1>10, MeaningStart, MeaningBegins, MeaningAfter, MeaningHook
     DEF CommandsNext

\* Every frame and everything that ran means what was typed
\* (commands-service.ts tryExecuteCommandAction, yok.ts buildHierarchicalCommand).
THEOREM CommandsMeaning == CommandsSpec => []MeaningIInv
<1>1. CommandsInit => CommandsIInv /\ MeaningIInv
  BY CommandsBegin, MeaningBegin
<1>2. CommandsIInv /\ MeaningIInv /\ [CommandsNext]_commandsVars => (CommandsIInv /\ MeaningIInv)'
  BY CommandsStep, MeaningStep
<1> QED
  BY <1>1, <1>2, PTL DEF CommandsSpec

LEMMA CallsItsOwnIs == CommandsIInv /\ MeaningIInv /\ CallsOwn(ran) => CallsItsOwn
<1> SUFFICES ASSUME MeaningIInv, CallsOwn(ran) PROVE CallsItsOwn
  OBVIOUS
<1>1. DOMAIN ran = 1 .. Len(ran)
  BY SequenceIs DEF MeaningIInv, MeaningTyped
<1>2. \A name \in DOMAIN CommandOf : ResolveCommand(name) = CommandOf[name]
  BY DEF ResolveCommand
<1> QED
  BY <1>1, <1>2 DEF CallsOwn, CallsItsOwn, Family

\* No hooks run twice for a line but where a command executes its own family again: a
\* subcommand reached through its parent has other hooks than the parent has with its
\* arguments (commands-service.ts executeCommandUnchecked, hooks-service.ts formatHookName).
THEOREM CommandsHooksRunOnce == CommandsSpec => []HooksRunOnce
<1>1. CommandsIInv /\ MeaningIInv => HooksRunOnce
  <2> SUFFICES ASSUME CommandsIInv, MeaningIInv PROVE HooksRunOnce
    BY SMTT(30)
  <2>1. DOMAIN opened = 1 .. Len(opened) /\ OpenedOnce
    BY Lengths DEF CommandsIInv, MeaningIInv
  <2>2. CallsOwn(ran) => CallsItsOwn
    BY CallsItsOwnIs
  <2> QED
    BY <2>1, <2>2 DEF HooksRunOnce, OpenedOnce
<1> QED
  BY <1>1, CommandsInvariant, CommandsMeaning, PTL

\* What runs fits its parameters and the first of it is the command that the line means,
\* whatever commands are required in whichever order (yok.ts buildHierarchicalCommand,
\* commands-service.ts validateCommandArguments).
THEOREM CommandsRunsAsTyped == CommandsSpec => []RunsAsTyped
<1>1. MeaningIInv => RunsAsTyped
  <2> SUFFICES ASSUME MeaningIInv PROVE RunsAsTyped
    OBVIOUS
  <2>1. DOMAIN ran = 1 .. Len(ran) /\ Len(ran) \in Nat /\ generated \in BOOLEAN
    BY SequenceIs DEF MeaningIInv, MeaningTyped
  <2>2. ASSUME NEW i \in DOMAIN ran, i = 1, ~line.help, line.words # <<>>, ran[i].name \in Range(Required)
        PROVE  TypedAs(line.words, ran[i].name, ran[i].args)
    <3>1. Len(ran) >= 1
      BY <2>1, <2>2
    <3> QED
      BY <2>2, <3>1 DEF MeaningIInv, FirstMeant
  <2>3. ASSUME NEW i \in DOMAIN ran, line.help \/ line.words = <<>> PROVE ran[i].name = <<El(Help)>>
    BY <2>1, <2>3 DEF MeaningIInv, HelpAlone
  <2>4. ASSUME NEW i \in DOMAIN ran, ~ResolveCommand(ran[i].name).canExecute
        PROVE  Fits(ran[i].args, ResolveCommand(ran[i].name).params)
    <3> DEFINE name == ran[i].name
               c == ResolveCommand(name)
    <3>1. /\ name \in Names /\ Checked(name, ran[i].args, generated) /\ SubCommands(name) = {}
          /\ c = Resolved(name, generated)
      BY <2>1, ResolveIsResolved DEF MeaningIInv, RunsMean, RunMeans
    <3>2. CASE name \in DOMAIN CommandOf
      <4>1. c = CommandOf[name]
        BY <3>2 DEF ResolveCommand
      <4> HIDE DEF c, name
      <4> QED
        BY <2>4, <3>1, <3>2, <4>1 DEF Checked, c, name
    <3>3. CASE name \notin DOMAIN CommandOf
      <4>1. c = Dynamic
        BY <3>1, <3>3 DEF Checked, Resolved
      <4>2. Dynamic.canExecute = TRUE
        BY DEF Dynamic, Hierarchical
      <4> QED
        BY <2>4, <4>1, <4>2
    <3> QED
      BY <3>2, <3>3
  <2> QED
    BY <2>2, <2>3, <2>4 DEF RunsAsTyped, TypedAs, Called
<1> QED
  BY <1>1, CommandsMeaning, PTL

\* Frames, arguments and the line have their types, and the stack of the service has no
\* more commands than are open.
THEOREM CommandsTypeCorrect == CommandsSpec => []CommandsTypeOK
<1>1. CommandsIInv /\ MeaningIInv => CommandsTypeOK
  <2> SUFFICES ASSUME CommandsIInv, MeaningIInv PROVE CommandsTypeOK
    OBVIOUS
  <2>1. FramesShape /\ FramesMean /\ MeaningTyped
    BY DEF CommandsIInv, MeaningIInv
  <2>2. DOMAIN frames = 1 .. Len(frames) /\ Len(frames) \in Nat
    BY <2>1, Lengths
  <2>3. ASSUME NEW i \in DOMAIN frames PROVE Range(frames[i].args) \subseteq Words
    <3>1. frames[i].args \in Seq(Words)
      BY <2>1, <2>2 DEF FramesMean, FrameMeans
    <3> QED
      BY <3>1, LenProperties DEF Range
  <2>4. Len(commands) <= Len(frames)
    <3>1. status = "runs" => Len(commands) <= Len(frames)
      BY StackFits
    <3>2. status \in {"waits", "done"} => Len(commands) = 0
      BY DEF CommandsIInv
    <3> QED
      BY <2>1, <2>2, <3>1, <3>2 DEF FramesShape, MeaningTyped
  <2> QED
    BY <2>1, <2>2, <2>3, <2>4 DEF CommandsTypeOK, FramesShape, FrameIs, MeaningTyped
<1> QED
  BY <1>1, CommandsInvariant, CommandsMeaning, PTL
=============================================================================
