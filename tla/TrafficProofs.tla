---------------------------- MODULE TrafficProofs ----------------------------
(***************************************************************************)
(* What flows between the host and a container, for any number of bytes,   *)
(* resizes, seconds, images, connections, requests and services: what the  *)
(* user types and the child prints passes the pump in order, a pasted      *)
(* image stays what it was, the terminal is restored and keeps its size,   *)
(* only what a policy covers is forwarded, a client is told what became of *)
(* its request once, and a closed server is silent; each up to the         *)
(* exceptions its property names.                                          *)
(***************************************************************************)
EXTENDS MCTraffic, SequenceTheorems, WellFoundedInduction, TLAPS

(* The terminal.                                                           *)

\* Nothing is handled before the handler is there, and outside of the pump the
\* terminal is restored with the handler.
TerminalInv ==
    /\ phase \in {"start", "sized", "raw"} => ~winch
    /\ phase \in {"start", "sized"} => tty = "cooked"
    /\ TerminalRestored

\* While nothing is missed or pending, the size that was read is the terminal's.
SizeInv ==
    /\ winch \in BOOLEAN /\ sigwinch \in BOOLEAN /\ missed \in BOOLEAN
    /\ phase \notin {"start"} \cup Over /\ ~sigwinch /\ ~missed => ptySize = ttySize
    /\ phase \in {"start", "sized", "raw"} => ~winch /\ ~sigwinch
    /\ phase \in Pumping \cup {"wait", "handled"} => winch

LEMMA TerminalStep == TerminalInv /\ [PtyNext]_ptyVars => TerminalInv'
<1> SUFFICES ASSUME TerminalInv, [PtyNext]_ptyVars
             PROVE  TerminalInv'
  OBVIOUS
<1> USE DEF TerminalInv, TerminalRestored, Restore, pumpVars, sizeVars, PumpAt
<1>1. CASE SetupStep
  <2>1. CASE OpenPty \/ EnterRaw
    BY <2>1 DEF OpenPty, EnterRaw
  <2>2. CASE HandleWinch
    BY <2>2 DEF HandleWinch
  <2>3. CASE Spawn
    BY <2>3 DEF Spawn
  <2> QED BY <1>1, <2>1, <2>2, <2>3 DEF SetupStep
<1>2. CASE CheckRunning \/ Select \/ ReadMaster
  BY <1>2 DEF CheckRunning, Select, ReadMaster
<1>3. CASE ReadStdin \/ WriteMaster \/ WriteStdout
  BY <1>3 DEF ReadStdin, WriteMaster, WriteStdout, AfterStdin
<1>4. CASE EndStep \/ Interrupt \/ OnWinch
  BY <1>4 DEF EndStep, WaitForChild, AtExit, Interrupt, OnWinch, Setup, Pumping
<1>5. CASE Environment \/ UNCHANGED ptyVars
  BY <1>5 DEF Environment, Type, CloseStdin, CloseStdout, Resize, Tick, ChildReads, ChildPrints,
              ChildEnds, ptyVars
<1> QED BY <1>1, <1>2, <1>3, <1>4, <1>5 DEF PtyNext, PumpStep

\* Wherever an exception is raised in run_with_pty, and when the child ends, the terminal
\* is restored by the end of the process, unless the one try of it fails or is interrupted.
THEOREM TerminalIsRestored == PtySpec => []TerminalRestored
<1>1. PtyInit => TerminalInv
  BY DEF PtyInit, TerminalInv, TerminalRestored
<1>2. TerminalInv => TerminalRestored
  BY DEF TerminalInv
<1> QED BY <1>1, <1>2, TerminalStep, PTL DEF PtySpec

LEMMA SizeStep == SizeInv /\ [PtyNext]_ptyVars => SizeInv'
<1> SUFFICES ASSUME SizeInv, [PtyNext]_ptyVars
             PROVE  SizeInv'
  OBVIOUS
<1> USE DEF SizeInv, pumpVars, sizeVars, PumpAt, Setup, Pumping, Over
<1>1. CASE SetupStep
  <2>1. CASE OpenPty
    BY <2>1 DEF OpenPty
  <2>2. CASE EnterRaw
    BY <2>2 DEF EnterRaw
  <2>3. CASE HandleWinch
    BY <2>3 DEF HandleWinch
  <2>4. CASE Spawn
    BY <2>4 DEF Spawn
  <2> QED BY <1>1, <2>1, <2>2, <2>3, <2>4 DEF SetupStep
<1>2. CASE CheckRunning \/ Select \/ ReadMaster
  BY <1>2 DEF CheckRunning, Select, ReadMaster
<1>3. CASE ReadStdin \/ WriteMaster \/ WriteStdout
  BY <1>3 DEF ReadStdin, WriteMaster, WriteStdout, AfterStdin
<1>4. CASE EndStep \/ Interrupt \/ OnWinch
  BY <1>4 DEF EndStep, WaitForChild, AtExit, Interrupt, OnWinch
<1>5. CASE Resize
  BY <1>5 DEF Resize
<1>6. CASE Type \/ CloseStdin \/ CloseStdout \/ Tick \/ ChildReads \/ ChildPrints \/ ChildEnds
           \/ UNCHANGED ptyVars
  BY <1>6 DEF Type, CloseStdin, CloseStdout, Tick, ChildReads, ChildPrints, ChildEnds, ptyVars
<1> QED BY <1>1, <1>2, <1>3, <1>4, <1>5, <1>6 DEF PtyNext, PumpStep, Environment

\* But for a resize before the handler is installed, the agent's terminal gets every
\* new size.
THEOREM SizeStaysInSync == PtySpec => []SizeInSync
<1>1. PtyInit => SizeInv
  BY DEF PtyInit, SizeInv, Over, Pumping
<1>2. SizeInv => SizeInSync
  BY DEF SizeInv, SizeInSync, Pumping, Over
<1> QED BY <1>1, <1>2, SizeStep, PTL DEF PtySpec
-----------------------------------------------------------------------------
\* A sequence of consecutive numbers, from k + 1 on.
Follows(s, k) == \A i \in 1..Len(s) : s[i] = k + i

\* Cutting, joining and appending.
LEMMA CutFollows ==
    ASSUME NEW s \in Seq(Nat), NEW k \in Nat, NEW n \in 1..Len(s), Follows(s, k)
    PROVE  /\ SubSeq(s, 1, n) \in Seq(Nat) /\ Len(SubSeq(s, 1, n)) = n
           /\ SubSeq(s, n + 1, Len(s)) \in Seq(Nat)
           /\ Len(SubSeq(s, n + 1, Len(s))) = Len(s) - n
           /\ Follows(SubSeq(s, 1, n), k) /\ Follows(SubSeq(s, n + 1, Len(s)), k + n)
<1>1. /\ SubSeq(s, 1, n) \in Seq(Nat) /\ Len(SubSeq(s, 1, n)) = n
      /\ \A i \in 1..n : SubSeq(s, 1, n)[i] = s[i]
  OBVIOUS
<1>2. /\ SubSeq(s, n + 1, Len(s)) \in Seq(Nat)
      /\ Len(SubSeq(s, n + 1, Len(s))) = Len(s) - n
      /\ \A i \in 1..(Len(s) - n) : SubSeq(s, n + 1, Len(s))[i] = s[n + i]
  <2>1. n \in Nat /\ n + 1 \in Int /\ Len(s) \in Nat /\ Len(s) \in Int /\ n <= Len(s)
    OBVIOUS
  <2>2. \A i \in (n + 1)..Len(s) : s[i] \in Nat
    BY <2>1
  <2> DEFINE m == n + 1
             l == Len(s)
             t == SubSeq(s, m, l)
  <2>3. /\ t \in Seq(Nat)
        /\ Len(t) = IF m <= l THEN l - m + 1 ELSE 0
        /\ \A i \in 1..(l - m + 1) : t[i] = s[m + i - 1]
    <3> HIDE DEF m, l
    <3>1. m \in Int /\ l \in Int /\ \A i \in m..l : s[i] \in Nat
      BY <2>1, <2>2 DEF m, l
    <3> QED BY <3>1, SubSeqProperties
  <2> HIDE DEF t
  <2>4. Len(t) = Len(s) - n
    BY <2>1, <2>3
  <2>5. \A i \in 1..(Len(s) - n) : t[i] = s[n + i]
    <3>1. ASSUME NEW i \in 1..(Len(s) - n)
          PROVE  i \in 1..(l - m + 1) /\ m + i - 1 = n + i
      BY <2>1
    <3> QED BY <3>1, <2>3
  <2> QED BY <2>3, <2>4, <2>5 DEF t
<1>3. Len(s) \in Nat
  OBVIOUS
<1> QED BY <1>1, <1>2, <1>3 DEF Follows

\* The two parts of a sequence.
LEMMA CutTypes ==
    ASSUME NEW s \in Seq(Nat), NEW n \in 1..Len(s)
    PROVE  SubSeq(s, 1, n) \in Seq(Nat) /\ SubSeq(s, n + 1, Len(s)) \in Seq(Nat)
OBVIOUS

LEMMA JoinFollows ==
    ASSUME NEW s \in Seq(Nat), NEW t \in Seq(Nat), NEW k \in Nat,
           Follows(s, k), Follows(t, k + Len(s))
    PROVE  s \o t \in Seq(Nat) /\ Len(s \o t) = Len(s) + Len(t) /\ Follows(s \o t, k)
<1>1. /\ s \o t \in Seq(Nat) /\ Len(s \o t) = Len(s) + Len(t)
      /\ \A i \in 1..Len(s) : (s \o t)[i] = s[i]
      /\ \A i \in 1..Len(t) : (s \o t)[Len(s) + i] = t[i]
  OBVIOUS
<1>2. Len(s) \in Nat /\ Len(t) \in Nat
  OBVIOUS
<1>3. ASSUME NEW i \in 1..Len(s \o t)
      PROVE  (s \o t)[i] = k + i
  <2>1. CASE i <= Len(s)
    BY <1>1, <1>2, <2>1 DEF Follows
  <2>2. CASE ~(i <= Len(s))
    <3>1. i - Len(s) \in 1..Len(t) /\ Len(s) + (i - Len(s)) = i
      BY <1>1, <1>2, <2>2
    <3>2. (s \o t)[Len(s) + (i - Len(s))] = t[i - Len(s)]
      BY <1>1, <3>1
    <3>3. t[i - Len(s)] = (k + Len(s)) + (i - Len(s))
      BY <3>1 DEF Follows
    <3> QED BY <1>2, <3>1, <3>2, <3>3
  <2> QED BY <2>1, <2>2
<1> QED BY <1>1, <1>3 DEF Follows

LEMMA NextFollows ==
    ASSUME NEW s \in Seq(Nat), NEW k \in Nat, NEW b \in Nat, Follows(s, k), b = k + Len(s) + 1
    PROVE  Append(s, b) \in Seq(Nat) /\ Len(Append(s, b)) = Len(s) + 1 /\ Follows(Append(s, b), k)
<1>1. /\ Append(s, b) \in Seq(Nat) /\ Len(Append(s, b)) = Len(s) + 1 /\ Len(s) \in Nat
      /\ \A i \in 1..Len(s) : Append(s, b)[i] = s[i]
      /\ Append(s, b)[Len(s) + 1] = b
  OBVIOUS
<1> QED BY <1>1 DEF Follows

\* Where each byte of the output is: the n-th byte printed is shown, in the hands of
\* _write_all, or in the PTY, in this order.  Once a byte was dropped nothing is said.
Hand == InHand("writeStdout")

OutputTypes ==
    /\ printed \in Nat /\ viewer \in BOOLEAN
    /\ shown \in Seq(Nat) /\ Hand \in Seq(Nat) /\ outbuf \in Seq(Nat)

NothingPrinted == child = "unborn" /\ printed = 0 /\ shown = <<>> /\ outbuf = <<>>

InOrder ==
    /\ printed = Len(shown) + Len(Hand) + Len(outbuf)
    /\ Follows(Hand, Len(shown)) /\ Follows(outbuf, Len(shown) + Len(Hand))

OutputInv ==
    /\ OutputTypes
    /\ phase \in Setup => NothingPrinted
    /\ viewer => /\ Len(shown) <= printed /\ Follows(shown, 0)
                 /\ phase \in Pumping => InOrder

\* A step that leaves the output alone.
LEMMA OutputSame ==
    ASSUME OutputInv, UNCHANGED <<printed, shown, outbuf, Hand>>,
           viewer' \in {viewer, FALSE},
           phase' \in Setup => phase \in Setup /\ child' = child,
           phase' \in Pumping => phase \in Pumping
    PROVE  OutputInv'
<1>1. CASE viewer' = viewer
  BY <1>1 DEF OutputInv, OutputTypes, NothingPrinted, InOrder, Follows
<1>2. CASE viewer' = FALSE
  BY <1>2 DEF OutputInv, OutputTypes, NothingPrinted
<1> QED BY <1>1, <1>2

\* What is read goes from the PTY into the hands of _write_all.
LEMMA ReadMasterKeeps == OutputInv /\ ReadMaster => OutputInv'
<1> SUFFICES ASSUME OutputInv, ReadMaster
             PROVE  OutputInv'
  OBVIOUS
<1>1. /\ Hand = <<>> /\ Len(Hand) = 0 /\ phase \in Pumping /\ phase' \notin Setup
      /\ UNCHANGED <<printed, shown, viewer>>
  BY DEF ReadMaster, Hand, InHand, Pumping, Setup
<1>2. CASE outbuf = <<>>
  <2>1. UNCHANGED <<outbuf, Hand>>
    BY <1>2 DEF ReadMaster, Hand, InHand
  <2> QED BY <1>1, <2>1, OutputSame
<1>3. CASE outbuf # <<>>
  <2>1. outbuf \in Seq(Nat) /\ Len(outbuf) \in Nat \ {0} /\ Len(shown) \in Nat
    BY <1>3 DEF OutputInv, OutputTypes
  <2>2. PICK n \in 1..Len(outbuf) : Hand' = SubSeq(outbuf, 1, n)
                                    /\ outbuf' = SubSeq(outbuf, n + 1, Len(outbuf))
    <3>1. Least(Chunk, Len(outbuf)) \in 1..Len(outbuf)
      BY <2>1, PtyAssumption DEF Least
    <3> QED BY <1>3, <3>1 DEF ReadMaster, OnStdout, Hand, InHand
  <2>3. OutputTypes'
    BY <1>1, <2>1, <2>2, CutTypes DEF OutputInv, OutputTypes
  <2>4. viewer => InOrder'
    <3> SUFFICES ASSUME viewer
                 PROVE  InOrder'
      OBVIOUS
    <3>1. Follows(outbuf, Len(shown)) /\ printed = Len(shown) + Len(outbuf)
      BY <1>1, <2>1 DEF OutputInv, InOrder
    <3>2. /\ Len(Hand') = n /\ Len(outbuf') = Len(outbuf) - n
          /\ Follows(Hand', Len(shown)) /\ Follows(outbuf', Len(shown) + n)
      BY <2>1, <2>2, <3>1, CutFollows
    <3> QED BY <1>1, <2>1, <3>1, <3>2 DEF InOrder
  <2> QED BY <1>1, <2>3, <2>4 DEF OutputInv
<1> QED BY <1>2, <1>3

\* What is written goes from there to the terminal, a part at a time.
LEMMA WriteStdoutKeeps == OutputInv /\ WriteStdout => OutputInv'
<1> SUFFICES ASSUME OutputInv, WriteStdout
             PROVE  OutputInv'
  OBVIOUS
<1>1. /\ Hand = pending /\ Hand' = pending' /\ phase \in Pumping /\ phase' \notin Setup
      /\ UNCHANGED <<printed, outbuf, viewer>>
      /\ Hand \in Seq(Nat) /\ shown \in Seq(Nat) /\ Len(shown) \in Nat /\ Len(Hand) \in Nat
      /\ outbuf \in Seq(Nat) /\ Len(outbuf) \in Nat
  BY DEF WriteStdout, OutputInv, OutputTypes, Hand, InHand, Pumping, Setup
<1>2. CASE viewer
  <2>1. PICK n \in 1..Len(Hand) : /\ shown' = shown \o SubSeq(Hand, 1, n)
                                  /\ Hand' = SubSeq(Hand, n + 1, Len(Hand))
    BY <1>1, <1>2 DEF WriteStdout
  <2>2. /\ printed = Len(shown) + Len(Hand) + Len(outbuf) /\ Follows(shown, 0)
        /\ Follows(Hand, Len(shown)) /\ Follows(outbuf, Len(shown) + Len(Hand))
    BY <1>1, <1>2 DEF OutputInv, InOrder
  <2>3. n \in 1..Len(Hand) /\ Hand \in Seq(Nat) /\ Len(shown) \in Nat
    BY <1>1, <2>1
  <2>4. /\ SubSeq(Hand, 1, n) \in Seq(Nat) /\ Len(SubSeq(Hand, 1, n)) = n
        /\ SubSeq(Hand, n + 1, Len(Hand)) \in Seq(Nat)
        /\ Len(SubSeq(Hand, n + 1, Len(Hand))) = Len(Hand) - n
        /\ Follows(SubSeq(Hand, 1, n), Len(shown))
        /\ Follows(SubSeq(Hand, n + 1, Len(Hand)), Len(shown) + n)
    BY <2>2, <2>3, CutFollows
  <2>5. Hand' \in Seq(Nat) /\ Len(Hand') = Len(Hand) - n /\ Follows(Hand', Len(shown) + n)
    BY <2>1, <2>4
  <2>6. shown' \in Seq(Nat) /\ Len(shown') = Len(shown) + n /\ Follows(shown', 0)
    <3>1. 0 + Len(shown) = Len(shown) /\ 0 \in Nat
      BY <2>3
    <3>2. Follows(SubSeq(Hand, 1, n), 0 + Len(shown))
      BY <3>1, <2>4
    <3>3. shown \in Seq(Nat) /\ Follows(shown, 0)
      BY <1>1, <2>2
    <3> QED BY <2>1, <2>4, <3>1, <3>2, <3>3, JoinFollows
  <2>7. OutputTypes' /\ Len(shown') <= printed'
    BY <1>1, <2>2, <2>3, <2>5, <2>6 DEF OutputInv, OutputTypes
  <2>8. InOrder'
    <3>1. Len(shown') + Len(Hand') = Len(shown) + Len(Hand)
      BY <1>1, <2>3, <2>5, <2>6
    <3>2. Len(shown') = Len(shown) + n
      BY <2>6
    <3> QED BY <1>1, <2>2, <2>5, <3>1, <3>2 DEF InOrder
  <2> QED BY <1>1, <2>6, <2>7, <2>8 DEF OutputInv
<1>3. CASE ~viewer
  <2>1. shown' = shown /\ Hand' = <<>>
    BY <1>1, <1>3 DEF WriteStdout
  <2> QED BY <1>1, <1>3, <2>1 DEF OutputInv, OutputTypes
<1> QED BY <1>2, <1>3

\* One byte more in the PTY.
LEMMA ChildPrintsKeeps == OutputInv /\ ChildPrints => OutputInv'
<1> SUFFICES ASSUME OutputInv, ChildPrints
             PROVE  OutputInv'
  OBVIOUS
<1>1. /\ phase \notin Setup /\ printed' = printed + 1 /\ outbuf' = Append(outbuf, printed + 1)
      /\ UNCHANGED <<shown, Hand, viewer, phase>>
  BY DEF ChildPrints, OutputInv, NothingPrinted, Hand, InHand, outVars, pumpVars
<1>2. /\ printed \in Nat /\ outbuf \in Seq(Nat) /\ Len(outbuf) \in Nat
      /\ Len(shown) \in Nat /\ Len(Hand) \in Nat
  BY DEF OutputInv, OutputTypes
<1>3. OutputTypes'
  <2>1. Append(outbuf, printed + 1) \in Seq(Nat)
    BY <1>2
  <2> QED BY <1>1, <1>2, <2>1 DEF OutputInv, OutputTypes
<1>4. ASSUME viewer, phase \in Pumping
      PROVE  InOrder'
  <2>1. /\ printed = Len(shown) + Len(Hand) + Len(outbuf)
        /\ Follows(Hand, Len(shown)) /\ Follows(outbuf, Len(shown) + Len(Hand))
    BY <1>4 DEF OutputInv, InOrder
  <2>2. Len(outbuf') = Len(outbuf) + 1 /\ Follows(outbuf', Len(shown) + Len(Hand))
    BY <1>1, <1>2, <2>1, NextFollows
  <2> QED BY <1>1, <1>2, <2>1, <2>2 DEF InOrder
<1> QED BY <1>1, <1>2, <1>3, <1>4 DEF OutputInv

LEMMA OutputStep == OutputInv /\ [PtyNext]_ptyVars => OutputInv'
<1> SUFFICES ASSUME OutputInv, [PtyNext]_ptyVars
             PROVE  OutputInv'
  OBVIOUS
<1>1. CASE OpenPty \/ EnterRaw \/ HandleWinch
  <2>1. /\ UNCHANGED <<printed, shown, outbuf, Hand, viewer, child>>
        /\ phase \in Setup /\ phase' \notin Pumping
    BY <1>1 DEF OpenPty, EnterRaw, HandleWinch, PumpAt, outVars, Hand, InHand, Setup, Pumping
  <2> QED BY <2>1, OutputSame
<1>2. CASE Spawn
  <2>1. /\ UNCHANGED <<printed, shown, outbuf, Hand, viewer>> /\ Hand = <<>>
        /\ phase \in Setup /\ phase' \notin Setup
    BY <1>2 DEF Spawn, PumpAt, outVars, Hand, InHand, Setup
  <2>2. Len(shown) = 0 /\ Len(outbuf) = 0 /\ Len(Hand) = 0 /\ printed = 0
    BY <2>1 DEF OutputInv, NothingPrinted
  <2> QED BY <2>1, <2>2 DEF OutputInv, OutputTypes, InOrder, Follows
<1>3. CASE CheckRunning \/ Select \/ ReadStdin \/ WriteMaster
  <2>1. /\ UNCHANGED <<printed, shown, outbuf, Hand, viewer>>
        /\ phase \in Pumping /\ phase' \notin Setup
    BY <1>3 DEF CheckRunning, Select, ReadStdin, WriteMaster, AfterStdin, PumpAt, outVars,
                Hand, InHand, Setup, Pumping
  <2> QED BY <2>1, OutputSame
<1>4. CASE EndStep \/ Interrupt
  <2>1. /\ UNCHANGED <<printed, shown, outbuf, viewer>> /\ Hand' = <<>>
        /\ phase' \notin Setup \cup Pumping
    BY <1>4 DEF EndStep, WaitForChild, AtExit, Interrupt, PumpAt, outVars, Hand, InHand,
                Setup, Pumping
  <2> QED BY <2>1 DEF OutputInv, OutputTypes
<1>5. CASE ChildEnds
  <2>1. UNCHANGED <<printed, shown, outbuf, Hand, viewer, phase>> /\ phase \notin Setup
    BY <1>5 DEF ChildEnds, OutputInv, NothingPrinted, outVars, pumpVars, Hand, InHand
  <2> QED BY <2>1, OutputSame
<1>6. CASE OnWinch \/ Type \/ CloseStdin \/ CloseStdout \/ Resize \/ ChildReads \/ Tick
           \/ UNCHANGED ptyVars
  <2>1. /\ UNCHANGED <<printed, shown, outbuf, Hand, phase, child>>
        /\ viewer' \in {viewer, FALSE}
    BY <1>6 DEF OnWinch, Type, CloseStdin, CloseStdout, Resize, ChildReads, Tick, ptyVars,
                outVars, pumpVars, Hand, InHand
  <2> QED BY <2>1, OutputSame
<1> QED BY <1>1, <1>2, <1>3, <1>4, <1>5, <1>6, ReadMasterKeeps, WriteStdoutKeeps, ChildPrintsKeeps
           DEF PtyNext, SetupStep, PumpStep, Environment

\* While the pump runs and somebody reads, output is neither lost nor doubled nor moved on
\* its way through it; afterwards a prefix of it is shown (run_with_pty and _pump).
THEOREM OutputIsKept == PtySpec => []OutputArrives
<1>1. PtyInit => OutputInv
  BY DEF PtyInit, OutputInv, OutputTypes, NothingPrinted, Follows, Hand, InHand, Setup, Pumping
<1>2. OutputInv => OutputArrives
  <2> SUFFICES ASSUME OutputInv, viewer
               PROVE  OutputArrives
    BY DEF OutputArrives
  <2> DEFINE all == [i \in 1..printed |-> i]
  <2>1. /\ printed \in Nat /\ all \in Seq(Nat) /\ Len(all) = printed
        /\ \A i \in 1..printed : all[i] = i
    BY DEF OutputInv, OutputTypes
  <2>2. /\ shown \in Seq(Nat) /\ Len(shown) \in Nat /\ Len(shown) <= printed
        /\ \A i \in 1..Len(shown) : shown[i] = i
    BY DEF OutputInv, OutputTypes, Follows
  <2>3. IsPrefix(shown, all)
    BY <2>1, <2>2 DEF IsPrefix
  <2>4. ASSUME phase \in Pumping
        PROVE  shown \o Hand \o outbuf = all
    <3>1. /\ Hand \in Seq(Nat) /\ outbuf \in Seq(Nat) /\ 0 \in Nat
          /\ printed = Len(shown) + Len(Hand) + Len(outbuf)
          /\ Follows(shown, 0) /\ Follows(Hand, 0 + Len(shown))
          /\ Follows(outbuf, 0 + (Len(shown) + Len(Hand)))
      BY <2>2, <2>4 DEF OutputInv, OutputTypes, InOrder
    <3>2. /\ shown \o Hand \in Seq(Nat) /\ Len(shown \o Hand) = Len(shown) + Len(Hand)
          /\ Follows(shown \o Hand, 0)
      BY <2>2, <3>1, JoinFollows
    <3>3. Follows(outbuf, 0 + Len(shown \o Hand))
      BY <3>1, <3>2
    <3>4. /\ shown \o Hand \o outbuf \in Seq(Nat) /\ Follows(shown \o Hand \o outbuf, 0)
          /\ Len(shown \o Hand \o outbuf) = Len(shown \o Hand) + Len(outbuf)
      BY <3>1, <3>2, <3>3, JoinFollows
    <3>5. Len(shown \o Hand \o outbuf) = printed
      BY <3>1, <3>2, <3>4
    <3>6. \A i \in 1..printed : (shown \o Hand \o outbuf)[i] = all[i]
      BY <2>1, <3>4, <3>5 DEF Follows
    <3> HIDE DEF all
    <3> QED BY <2>1, <3>4, <3>5, <3>6, SeqEqual
  <2> QED BY <2>3, <2>4 DEF OutputArrives, Hand
<1> QED BY <1>1, <1>2, OutputStep, PTL DEF PtySpec
-----------------------------------------------------------------------------
(* What the user types.                                                    *)

\* A set of numbers has a least one.  It stands for induction: a property that fails
\* fails first somewhere.
LEMMA HasLeast ==
    ASSUME NEW T \in SUBSET Nat, T # {}
    PROVE  \E x \in T : \A y \in T : x <= y
<1> DEFINE R == OpToRel(<, Nat)
<1>1. IsWellFoundedOn(R, Nat)
  BY NatLessThanWellFounded
<1>2. \A x, y \in Nat : <<y, x>> \in R <=> y < x
  BY DEF OpToRel
<1> HIDE DEF R
<1>3. PICK x \in T : \A y \in T : ~ (<<y, x>> \in R)
  BY <1>1, WFMin
<1>4. ASSUME NEW y \in T
      PROVE  x <= y
  <2>1. x \in Nat /\ y \in Nat /\ ~ (<<y, x>> \in R)
    BY <1>3
  <2>2. ~ (y < x)
    BY <1>2, <2>1
  <2> QED BY <2>1, <2>2
<1> QED BY <1>4

\* What holds of 0 and of n + 1 if of n holds up to m.
LEMMA UpTo ==
    ASSUME NEW m \in Nat, NEW S, 0 \in S, \A n \in 0..(m - 1) : n \in S => n + 1 \in S
    PROVE  0..m \subseteq S
<1> SUFFICES ASSUME ~ (0..m \subseteq S)
             PROVE  FALSE
  OBVIOUS
<1>1. PICK x \in (0..m) \ S : \A y \in (0..m) \ S : x <= y
  <2>1. (0..m) \ S \in SUBSET Nat /\ (0..m) \ S # {}
    OBVIOUS
  <2> QED BY <2>1, HasLeast
<1>2. x - 1 \in 0..(m - 1) /\ x - 1 \in S /\ (x - 1) + 1 = x
  BY <1>1
<1> QED BY <1>1, <1>2

\* f[i] is the sequences 1 to i of s, one after the other.
Joins(f, s, n) == f = [i \in 1..n |-> IF i = 1 THEN s[i] ELSE f[i - 1] \o s[i]]

LEMMA JoinsExist ==
    ASSUME NEW s, NEW m \in Nat
    PROVE  \E f : Joins(f, s, m)
<1> DEFINE S == {n \in Nat : \E f : Joins(f, s, n)}
<1>1. 0 \in S
  <2> DEFINE g == [i \in 1..0 |-> <<>>]
  <2>1. Joins(g, s, 0)
    BY DEF Joins
  <2> QED BY <2>1
<1>2. ASSUME NEW n \in Nat, n \in S
      PROVE  n + 1 \in S
  <2>1. PICK f : Joins(f, s, n)
    BY <1>2
  <2> DEFINE g == [i \in 1..(n + 1) |->
                     IF i = n + 1 THEN IF i = 1 THEN s[i] ELSE f[i - 1] \o s[i] ELSE f[i]]
  <2>2. \A i \in 1..n : f[i] = IF i = 1 THEN s[i] ELSE f[i - 1] \o s[i]
    BY <2>1 DEF Joins
  <2>3. g = [i \in 1..(n + 1) |-> g[i]]
    OBVIOUS
  <2>4. ASSUME NEW i \in 1..n
        PROVE  g[i] = f[i]
    OBVIOUS
  <2>5. g[n + 1] = IF n + 1 = 1 THEN s[n + 1] ELSE f[(n + 1) - 1] \o s[n + 1]
    OBVIOUS
  <2> HIDE DEF g
  <2>6. ASSUME NEW i \in 1..(n + 1)
        PROVE  g[i] = IF i = 1 THEN s[i] ELSE g[i - 1] \o s[i]
    <3>1. CASE i = n + 1
      <4>1. CASE i = 1
        BY <2>5, <3>1, <4>1
      <4>2. CASE i # 1
        <5>1. i - 1 \in 1..n
          BY <4>2, <3>1
        <5>2. (n + 1) - 1 = i - 1 /\ g[i - 1] = f[i - 1] /\ n + 1 # 1
          BY <2>4, <3>1, <4>2, <5>1
        <5>3. g[n + 1] = f[(n + 1) - 1] \o s[n + 1]
          BY <2>5, <5>2
        <5> QED BY <3>1, <4>2, <5>2, <5>3
      <4> QED BY <4>1, <4>2
    <3>2. CASE i # n + 1
      <4>1. i \in 1..n /\ (i # 1 => i - 1 \in 1..n)
        BY <3>2
      <4> QED BY <2>2, <2>4, <4>1
    <3> QED BY <3>1, <3>2
  <2>7. g = [i \in 1..(n + 1) |-> IF i = 1 THEN s[i] ELSE g[i - 1] \o s[i]]
    BY <2>3, <2>6
  <2>8. Joins(g, s, n + 1)
    BY <2>7 DEF Joins
  <2> QED BY <2>8
<1> HIDE DEF S
<1>3. 0..m \subseteq S
  BY <1>1, <1>2, UpTo
<1> QED BY <1>3 DEF S

LEMMA JoinsTyped ==
    ASSUME NEW B, NEW m \in Nat, NEW s, \A i \in 1..m : s[i] \in Seq(B), NEW f, Joins(f, s, m)
    PROVE  f \in [1..m -> Seq(B)]
<1>1. f = [i \in 1..m |-> f[i]]
  BY DEF Joins
<1>2. \A i \in 1..m : f[i] = IF i = 1 THEN s[i] ELSE f[i - 1] \o s[i]
  BY DEF Joins
<1> DEFINE T == {n \in Nat : n \in 1..m => f[n] \in Seq(B)}
<1>3. 0 \in T
  OBVIOUS
<1>4. ASSUME NEW n \in 0..(m - 1), n \in T
      PROVE  n + 1 \in T
  <2>1. CASE n = 0
    BY <1>2, <2>1
  <2>2. CASE n # 0
    <3>1. n \in 1..m /\ n + 1 \in 1..m /\ n + 1 # 1 /\ (n + 1) - 1 = n /\ n + 1 \in Nat
      BY <2>2
    <3>2. f[n] \in Seq(B) /\ s[n + 1] \in Seq(B) /\ f[n + 1] = f[n] \o s[n + 1]
      BY <1>2, <1>4, <3>1
    <3>3. f[n + 1] \in Seq(B)
      BY <3>2, ConcatProperties
    <3> QED BY <3>1, <3>3
  <2> QED BY <2>1, <2>2
<1>5. ASSUME NEW i \in 1..m
      PROVE  f[i] \in Seq(B)
  <2>1. 0..m \subseteq T
    <3> HIDE DEF T
    <3> QED BY <1>3, <1>4, UpTo
  <2>2. i \in 0..m
    OBVIOUS
  <2> QED BY <2>1, <2>2
<1> QED BY <1>1, <1>5

\* Two sequences that begin alike are joined alike as far as that.
LEMMA JoinsAgree ==
    ASSUME NEW s, NEW t, NEW m \in Nat, NEW n \in m..(m + 1), \A i \in 1..m : s[i] = t[i],
           NEW f, Joins(f, s, m), NEW g, Joins(g, t, n)
    PROVE  \A i \in 1..m : f[i] = g[i]
<1>1. \A i \in 1..m : f[i] = IF i = 1 THEN s[i] ELSE f[i - 1] \o s[i]
  BY DEF Joins
<1>2. \A i \in 1..n : g[i] = IF i = 1 THEN t[i] ELSE g[i - 1] \o t[i]
  BY DEF Joins
<1> DEFINE T == {k \in Nat : k \in 1..m => f[k] = g[k]}
<1>3. 0 \in T
  OBVIOUS
<1>4. ASSUME NEW k \in 0..(m - 1), k \in T
      PROVE  k + 1 \in T
  <2>1. k + 1 \in 1..m /\ k + 1 \in 1..n /\ (k + 1) - 1 = k /\ (k # 0 => k \in 1..m)
    OBVIOUS
  <2>2. CASE k = 0
    BY <1>1, <1>2, <2>1, <2>2
  <2>3. CASE k # 0
    <3>1. f[k] = g[k] /\ k + 1 # 1
      BY <1>4, <2>1, <2>3
    <3> QED BY <1>1, <1>2, <2>1, <3>1
  <2> QED BY <2>2, <2>3
<1>5. ASSUME NEW i \in 1..m
      PROVE  f[i] = g[i]
  <2>1. 0..m \subseteq T
    <3> HIDE DEF T
    <3> QED BY <1>3, <1>4, UpTo
  <2>2. i \in 0..m
    OBVIOUS
  <2> QED BY <2>1, <2>2
<1> QED BY <1>5

\* FlattenSeq joins one sequence after the other.
LEMMA Flattened ==
    ASSUME NEW s, Len(s) \in Nat \ {0}
    PROVE  \E f : Joins(f, s, Len(s)) /\ FlattenSeq(s) = f[Len(s)]
<1> DEFINE h == CHOOSE f : Joins(f, s, Len(s))
<1>1. Joins(h, s, Len(s))
  BY JoinsExist
<1>2. FlattenSeq(s) = h[Len(s)]
  BY DEF FlattenSeq, Joins
<1> HIDE DEF h
<1> QED BY <1>1, <1>2

\* What a byte written to the child stands for.
KeyOf(b) == IF b \in Bytes THEN <<b>> ELSE b.key

Typable(B) == \A b \in B : KeyOf(b) \in Seq(Bytes)

LEMMA KeysAre ==
    ASSUME NEW B, NEW s \in Seq(B)
    PROVE  LET k == [i \in 1..Len(s) |-> KeyOf(s[i])]
           IN  /\ Keys(s) = FlattenSeq(k) /\ Len(k) = Len(s)
<1> DEFINE k == [i \in 1..Len(s) |-> KeyOf(s[i])]
<1>1. Len(s) \in Nat /\ DOMAIN s = 1..Len(s)
  OBVIOUS
<1>2. Len(k) = Len(s)
  BY <1>1
<1>3. Keys(s) = FlattenSeq(k)
  BY <1>1 DEF Keys, KeyOf
<1> QED BY <1>2, <1>3

LEMMA KeysEmpty == Keys(<<>>) = <<>>
<1> DEFINE k == [i \in DOMAIN <<>> |-> IF <<>>[i] \in Bytes THEN <<<<>>[i]>> ELSE <<>>[i].key]
<1>1. k = <<>>
  OBVIOUS
<1>2. Keys(<<>>) = FlattenSeq(k)
  BY DEF Keys
<1>3. FlattenSeq(<<>>) = <<>>
  BY DEF FlattenSeq
<1> QED BY <1>1, <1>2, <1>3

\* One byte more is its keys more.
LEMMA KeysAppend ==
    ASSUME NEW B, Typable(B), NEW s \in Seq(B), NEW b \in B
    PROVE  Keys(Append(s, b)) = Keys(s) \o KeyOf(b)
<1> DEFINE n == Len(s)
           t == Append(s, b)
           k == [i \in 1..n |-> KeyOf(s[i])]
           l == [i \in 1..(n + 1) |-> KeyOf(t[i])]
<1>1. /\ n \in Nat /\ t \in Seq(B) /\ Len(t) = n + 1
      /\ \A i \in 1..n : t[i] = s[i]
      /\ t[n + 1] = b
  OBVIOUS
<1>2. Keys(t) = FlattenSeq(l) /\ Len(l) = n + 1 /\ Keys(s) = FlattenSeq(k) /\ Len(k) = n
  BY <1>1, KeysAre
<1>3. PICK g : Joins(g, l, n + 1) /\ FlattenSeq(l) = g[n + 1]
  <2> HIDE DEF n, t, k, l
  <2>1. Len(l) \in Nat \ {0} /\ Len(l) = n + 1
    BY <1>1, <1>2
  <2>2. \E g : Joins(g, l, Len(l)) /\ FlattenSeq(l) = g[Len(l)]
    BY <2>1, Flattened
  <2> QED BY <2>1, <2>2
<1> HIDE DEF t
<1>4. l[n + 1] = KeyOf(b) /\ \A i \in 1..n : l[i] = KeyOf(s[i]) /\ k[i] = KeyOf(s[i])
  <2>1. n + 1 \in 1..(n + 1) /\ \A i \in 1..n : i \in 1..(n + 1)
    BY <1>1
  <2>2. l[n + 1] = KeyOf(t[n + 1]) /\ \A i \in 1..n : l[i] = KeyOf(t[i])
    BY <2>1
  <2>3. \A i \in 1..n : k[i] = KeyOf(s[i])
    OBVIOUS
  <2> HIDE DEF n, k, l
  <2> QED BY <1>1, <2>2, <2>3
<1> HIDE DEF n, k, l
<1>5. CASE n = 0
  <2>1. s = <<>> /\ Keys(s) = <<>>
    BY <1>5, KeysEmpty DEF n
  <2>2. g[1] = l[1]
    BY <1>3, <1>5 DEF Joins
  <2>3. Keys(t) = KeyOf(b)
    BY <1>2, <1>3, <1>4, <1>5, <2>2
  <2>4. <<>> \o KeyOf(b) = KeyOf(b)
    BY ConcatEmptySeq DEF Typable
  <2> QED BY <2>1, <2>3, <2>4 DEF t
<1>6. CASE n # 0
  <2>1. PICK f : Joins(f, k, n) /\ FlattenSeq(k) = f[n]
    <3>1. Len(k) \in Nat \ {0}
      BY <1>1, <1>2, <1>6
    <3> QED BY <1>2, <3>1, Flattened
  <2>2. f[n] = g[n]
    <3>1. n \in 1..n /\ n + 1 \in n..(n + 1) /\ \A i \in 1..n : k[i] = l[i]
      BY <1>1, <1>4, <1>6
    <3>2. n \in Nat /\ Joins(g, l, n + 1) /\ Joins(f, k, n)
      BY <1>1, <1>3, <2>1
    <3>3. \A i \in 1..n : f[i] = g[i]
      BY <3>1, <3>2, JoinsAgree
    <3> QED BY <3>1, <3>3
  <2>3. g[n + 1] = g[n] \o l[n + 1]
    <3>1. n + 1 \in 1..(n + 1) /\ n + 1 # 1 /\ (n + 1) - 1 = n
      BY <1>1, <1>6
    <3> QED BY <1>3, <3>1 DEF Joins
  <2> QED BY <1>2, <1>3, <1>4, <2>1, <2>2, <2>3 DEF t
<1> QED BY <1>5, <1>6

LEMMA KeysTyped ==
    ASSUME NEW B, Typable(B), NEW s \in Seq(B)
    PROVE  Keys(s) \in Seq(Bytes)
<1> DEFINE n == Len(s)
           k == [i \in 1..n |-> KeyOf(s[i])]
<1>1. n \in Nat /\ \A i \in 1..n : s[i] \in B
  OBVIOUS
<1>2. Keys(s) = FlattenSeq(k) /\ Len(k) = n
  BY KeysAre
<1>3. \A i \in 1..n : k[i] \in Seq(Bytes)
  BY <1>1 DEF Typable
<1>4. CASE n = 0
  <2>1. s = <<>> /\ <<>> \in Seq(Bytes)
    BY <1>4
  <2> QED BY <2>1, KeysEmpty
<1>5. CASE n # 0
  <2> HIDE DEF n, k
  <2>1. PICK f : Joins(f, k, n) /\ FlattenSeq(k) = f[n]
    <3>1. Len(k) \in Nat \ {0}
      BY <1>1, <1>2, <1>5
    <3> QED BY <1>2, <3>1, Flattened
  <2>2. f \in [1..n -> Seq(Bytes)]
    BY <1>1, <1>3, <2>1, JoinsTyped
  <2> QED BY <1>1, <1>2, <1>5, <2>1, <2>2
<1> QED BY <1>4, <1>5

LEMMA KeysConcat ==
    ASSUME NEW B, Typable(B), NEW s \in Seq(B), NEW t \in Seq(B)
    PROVE  Keys(s \o t) = Keys(s) \o Keys(t)
<1> DEFINE u(n) == SubSeq(t, 1, n)
           T == {n \in Nat : Keys(s \o u(n)) = Keys(s) \o Keys(u(n))}
<1>0. Len(t) \in Nat /\ u(Len(t)) = t
  BY SubSeqFull
<1>1. 0 \in T
  <2>1. u(0) = <<>> /\ s \o <<>> = s /\ Keys(s) \o <<>> = Keys(s)
    BY KeysTyped, ConcatEmptySeq, SubSeqEmpty
  <2>2. Keys(s \o u(0)) = Keys(s) \o Keys(u(0))
    BY <2>1, KeysEmpty
  <2> HIDE DEF u
  <2> QED BY <2>2
<1>2. ASSUME NEW n \in 0..(Len(t) - 1), n \in T
      PROVE  n + 1 \in T
  <2> DEFINE b == t[n + 1]
  <2>1. u(n) \in Seq(B) /\ b \in B /\ u(n + 1) = Append(u(n), b) /\ n + 1 \in Nat
    <3>1. n \in Nat /\ n + 1 \in 1..Len(t) /\ (n + 1) - 1 = n
      BY <1>0
    <3>2. u(n) \in Seq(B) /\ b \in B
      BY <3>1
    <3>3. u(n + 1) = u(n) \o <<b>>
      BY <3>1, SubSeqRecursiveSecond
    <3> HIDE DEF u, b
    <3>4. u(n) \o <<b>> = Append(u(n), b)
      BY <3>2
    <3> QED BY <3>1, <3>2, <3>3, <3>4
  <2> HIDE DEF b, u
  <2>2. s \o Append(u(n), b) = Append(s \o u(n), b) /\ s \o u(n) \in Seq(B)
    BY <2>1
  <2>3. Keys(s \o u(n + 1)) = Keys(s \o u(n)) \o KeyOf(b)
    BY <2>1, <2>2, KeysAppend
  <2>4. Keys(u(n + 1)) = Keys(u(n)) \o KeyOf(b)
    BY <2>1, KeysAppend
  <2>5. Keys(s) \in Seq(Bytes) /\ Keys(u(n)) \in Seq(Bytes) /\ KeyOf(b) \in Seq(Bytes)
    BY <2>1, KeysTyped DEF Typable
  <2>6. (Keys(s) \o Keys(u(n))) \o KeyOf(b) = Keys(s) \o (Keys(u(n)) \o KeyOf(b))
    BY <2>5, ConcatAssociative
  <2>7. Keys(s \o u(n)) = Keys(s) \o Keys(u(n))
    BY <1>2
  <2> QED BY <2>1, <2>3, <2>4, <2>6, <2>7
<1>3. Len(t) \in T
  <2> HIDE DEF T
  <2>1. Len(t) \in Nat
    BY <1>0
  <2>2. 0..Len(t) \subseteq T
    BY <1>1, <1>2, <2>1, UpTo
  <2>3. Len(t) \in 0..Len(t)
    BY <2>1
  <2> QED BY <2>2, <2>3
<1> QED BY <1>0, <1>3

\* What the bytes and the references stand for are bytes.
LEMMA BytesTypable == Typable(Bytes)
<1> SUFFICES ASSUME NEW b \in Bytes
             PROVE  KeyOf(b) \in Seq(Bytes)
  BY DEF Typable
<1>1. <<b>> \in Seq(Bytes)
  OBVIOUS
<1> QED BY <1>1 DEF KeyOf

\* Bytes stand for themselves.
LEMMA KeysOfBytes ==
    ASSUME NEW t \in Seq(Bytes)
    PROVE  Keys(t) = t
<1> DEFINE u(n) == SubSeq(t, 1, n)
           T == {n \in Nat : Keys(u(n)) = u(n)}
<1>0. Len(t) \in Nat /\ u(Len(t)) = t
  BY SubSeqFull
<1>1. 0 \in T
  <2>1. u(0) = <<>>
    BY SubSeqEmpty
  <2>2. Keys(u(0)) = u(0)
    BY <2>1, KeysEmpty
  <2> HIDE DEF u
  <2> QED BY <2>2
<1>2. ASSUME NEW n \in 0..(Len(t) - 1), n \in T
      PROVE  n + 1 \in T
  <2> DEFINE b == t[n + 1]
  <2>1. n \in Nat /\ n + 1 \in 1..Len(t) /\ (n + 1) - 1 = n /\ n + 1 \in Nat
    BY <1>0
  <2>2. u(n) \in Seq(Bytes) /\ b \in Bytes
    BY <2>1
  <2>3. u(n + 1) = u(n) \o <<b>>
    BY <2>1, SubSeqRecursiveSecond
  <2> HIDE DEF u, b
  <2>4. u(n) \o <<b>> = Append(u(n), b) /\ KeyOf(b) = <<b>>
    BY <2>2 DEF KeyOf
  <2>5. Keys(Append(u(n), b)) = Keys(u(n)) \o KeyOf(b)
    BY <2>2, BytesTypable, KeysAppend
  <2>6. Keys(u(n)) = u(n)
    BY <1>2
  <2> QED BY <2>1, <2>3, <2>4, <2>5, <2>6
<1>3. Len(t) \in T
  <2> HIDE DEF T
  <2>1. Len(t) \in Nat
    BY <1>0
  <2>2. 0..Len(t) \subseteq T
    BY <1>1, <1>2, <2>1, UpTo
  <2>3. Len(t) \in 0..Len(t)
    BY <2>1
  <2> QED BY <2>2, <2>3
<1> QED BY <1>0, <1>3

\* A paste key is a sequence of one or two bytes.
LEMMA KeyIs ==
    ASSUME NEW k \in Triggers
    PROVE  k \in Seq(Bytes) /\ Len(k) \in 1..2
<1>1. CtrlV \in Bytes /\ Esc \in Bytes /\ CsiV \in Bytes
  BY DEF Bytes
<1>2. CASE k = <<CtrlV>>
  BY <1>1, <1>2
<1>3. CASE k = <<Esc, CsiV>>
  BY <1>1, <1>3
<1> QED BY <1>2, <1>3 DEF Triggers

LEMMA HostImageIs ==
    ASSUME NEW answers \in [1..Len(Tools) -> Images \cup {NoImage}]
    PROVE  HostImage(answers) \in Images \cup {NoImage}
<1> DEFINE hits == {t \in DOMAIN answers : answers[t] # NoImage}
<1>1. CASE hits = {}
  BY <1>1 DEF HostImage
<1>2. CASE hits # {}
  <2>1. hits \subseteq Nat /\ hits \subseteq DOMAIN answers
    OBVIOUS
  <2>2. \E t \in hits : \A u \in hits : t <= u
    BY <1>2, <2>1, HasLeast
  <2> DEFINE first == CHOOSE t \in hits : \A u \in hits : t <= u
  <2>3. first \in hits
    BY <2>2
  <2>4. HostImage(answers) = answers[first]
    BY <1>2 DEF HostImage
  <2> HIDE DEF first, hits
  <2> QED BY <2>1, <2>3, <2>4
<1> QED BY <1>1, <1>2

BytesAndReferences == Bytes \cup References

LEMMA ReferencesTypable == Typable(BytesAndReferences)
<1>1. ASSUME NEW r \in References
      PROVE  r.key \in Seq(Bytes)
  <2>1. r.key \in Triggers
    BY DEF References
  <2> QED BY <2>1, KeyIs
<1> QED BY <1>1, BytesTypable DEF Typable, KeyOf, BytesAndReferences

LEMMA KeyOfReference ==
    ASSUME limit \in Limits, clock \in Nat,
           NEW r \in References
    PROVE  r \notin Bytes /\ KeyOf(r) = r.key
<1>1. 0..limit.seconds \subseteq Nat
  OBVIOUS
<1>2. r \in [path : [stamp : Nat, counter : Nat, extension : Formats],
             image : Images, key : Triggers]
  BY <1>1 DEF References, Paths
<1> QED BY <1>2, PtyAssumption DEF KeyOf

-----------------------------------------------------------------------------
\* The images saved so far, while n bytes have been read: each paste key takes a
\* byte or two, so that their counters are below n.
FilesOK(files, n) ==
    /\ DOMAIN files \subseteq Paths
    /\ \A p \in DOMAIN files : files[p] \in Images /\ p.counter < n

\* There is a free path, and its counter is not above the bytes read.
LEMMA FreePathIsFree ==
    ASSUME limit \in Limits, clock \in 0..limit.seconds,
           NEW k \in 0..limit.typed, NEW files, FilesOK(files, k), NEW image \in Images
    PROVE  LET path == FreePath(files, image)
           IN  path \in Paths /\ path \notin DOMAIN files /\ path.counter < k + 1
<1> DEFINE At(n) == [stamp |-> clock, counter |-> n, extension |-> Format[image]]
           free == {n \in 0..limit.typed : At(n) \notin DOMAIN files}
           Good(n) == At(n) \notin DOMAIN files /\ \A m \in 0..(n - 1) : At(m) \in DOMAIN files
           c == CHOOSE n \in 0..limit.typed : Good(n)
<1>1. limit.typed \in Nat /\ Format[image] \in Formats
  BY PtyAssumption
<1>2. \A n \in Nat : At(n) \in Paths /\ At(n).counter = n
  BY <1>1 DEF Paths
<1>3. FreePath(files, image) = At(c)
  BY DEF FreePath
<1>4. k \in free
  <2>1. At(k) \notin DOMAIN files
    <3> SUFFICES ASSUME At(k) \in DOMAIN files
                 PROVE  FALSE
      OBVIOUS
    <3>1. At(k).counter < k /\ At(k).counter = k
      BY <1>2 DEF FilesOK
    <3> QED BY <3>1
  <2> QED BY <2>1
<1>5. PICK x \in free : \A n \in free : x <= n
  <2>1. free \subseteq Nat
    OBVIOUS
  <2> HIDE DEF free
  <2> QED BY <1>4, <2>1, HasLeast
<1>6. x \in 0..limit.typed /\ Good(x)
  <2>1. ASSUME NEW m \in 0..(x - 1)
        PROVE  At(m) \in DOMAIN files
    <3>1. m \in 0..limit.typed /\ ~ (x <= m)
      BY <1>1, <1>5
    <3> QED BY <1>5, <3>1
  <2> QED BY <1>5, <2>1
<1>7. c \in 0..limit.typed /\ Good(c)
  <2> HIDE DEF Good
  <2> QED BY <1>6
<1>8. c < k + 1
  <2> SUFFICES ASSUME ~ (c < k + 1)
               PROVE  FALSE
    OBVIOUS
  <2>1. k \in 0..(c - 1)
    BY <1>1, <1>7
  <2>2. At(k) \in DOMAIN files
    BY <1>7, <2>1
  <2> QED BY <1>4, <2>2
<1> HIDE DEF c
<1> QED BY <1>2, <1>3, <1>7, <1>8

-----------------------------------------------------------------------------
\* The references in a sequence name files with their images.
Referenced(s, files) ==
    \A i \in 1..Len(s) : s[i] \in Bytes \/ (/\ s[i].path \in DOMAIN files
                                            /\ files[s[i].path] = s[i].image)

\* Nothing saved before is lost or changed.
Extends(files, before) ==
    DOMAIN before \subseteq DOMAIN files /\ \A p \in DOMAIN before : files[p] = before[p]

LEMMA ReferencedStays ==
    ASSUME NEW s, NEW files, NEW before, Referenced(s, before), Extends(files, before)
    PROVE  Referenced(s, files)
BY DEF Referenced, Extends

LEMMA ReferencedConcat ==
    ASSUME NEW s \in Seq(BytesAndReferences), NEW t \in Seq(BytesAndReferences), NEW files,
           Referenced(s, files), Referenced(t, files)
    PROVE  Referenced(s \o t, files)
<1>1. /\ Len(s \o t) = Len(s) + Len(t) /\ Len(s) \in Nat /\ Len(t) \in Nat
      /\ \A i \in 1..(Len(s) + Len(t)) :
            (s \o t)[i] = IF i <= Len(s) THEN s[i] ELSE t[i - Len(s)]
  BY ConcatProperties
<1>2. ASSUME NEW i \in 1..Len(s \o t)
      PROVE  (s \o t)[i] \in Bytes \/ (/\ (s \o t)[i].path \in DOMAIN files
                                       /\ files[(s \o t)[i].path] = (s \o t)[i].image)
  <2>1. CASE i <= Len(s)
    <3>1. i \in 1..Len(s) /\ (s \o t)[i] = s[i]
      BY <1>1, <2>1
    <3> QED BY <3>1 DEF Referenced
  <2>2. CASE ~ (i <= Len(s))
    <3>1. i - Len(s) \in 1..Len(t) /\ (s \o t)[i] = t[i - Len(s)]
      BY <1>1, <2>2
    <3> QED BY <3>1 DEF Referenced
  <2> QED BY <2>1, <2>2
<1> QED BY <1>2 DEF Referenced

LEMMA ReferencedCut ==
    ASSUME NEW s \in Seq(BytesAndReferences), NEW n \in 1..Len(s), NEW files,
           Referenced(s, files)
    PROVE  /\ SubSeq(s, 1, n) \in Seq(BytesAndReferences)
           /\ SubSeq(s, n + 1, Len(s)) \in Seq(BytesAndReferences)
           /\ Referenced(SubSeq(s, 1, n), files)
           /\ Referenced(SubSeq(s, n + 1, Len(s)), files)
           /\ SubSeq(s, 1, n) \o SubSeq(s, n + 1, Len(s)) = s
<1> DEFINE l == Len(s)
           m == n + 1
           a == SubSeq(s, 1, n)
           b == SubSeq(s, m, l)
<1>1. n \in Nat /\ n \in Int /\ m \in Int /\ l \in Nat /\ l \in Int /\ n <= l /\ 1 \in Int
  OBVIOUS
<1>2. \A i \in 1..l : s[i] \in BytesAndReferences
  OBVIOUS
<1>3. /\ a \in Seq(BytesAndReferences) /\ Len(a) = n
      /\ \A i \in 1..n : a[i] = s[i]
  OBVIOUS
<1>4. /\ b \in Seq(BytesAndReferences) /\ Len(b) = IF m <= l THEN l - m + 1 ELSE 0
      /\ \A i \in 1..(l - m + 1) : b[i] = s[m + i - 1]
  <2>1. \A i \in m..l : s[i] \in BytesAndReferences
    BY <1>1, <1>2
  <2> HIDE DEF m, l
  <2> QED BY <1>1, <2>1, SubSeqProperties
<1>5. Referenced(a, files)
  <2>1. \A i \in 1..n : i \in 1..l
    BY <1>1
  <2> HIDE DEF a
  <2> QED BY <1>3, <2>1 DEF Referenced
<1>6. Referenced(b, files)
  <2> SUFFICES ASSUME NEW i \in 1..Len(b)
               PROVE  b[i] \in Bytes \/ (/\ b[i].path \in DOMAIN files
                                         /\ files[b[i].path] = b[i].image)
    BY DEF Referenced
  <2> HIDE DEF b
  <2>1. i \in 1..(l - m + 1) /\ m + i - 1 \in 1..l
    BY <1>1, <1>4
  <2>2. b[i] = s[m + i - 1]
    BY <1>4, <2>1
  <2> QED BY <2>1, <2>2 DEF Referenced
<1>7. a \o b = s
  <2>1. 1 \in 1..(l + 1) /\ n \in (1 - 1)..l /\ l \in n..l
    BY <1>1
  <2>2. SubSeq(s, 1, n) \o SubSeq(s, n + 1, l) = SubSeq(s, 1, l)
    BY <2>1, ConcatAdjacentSubSeq
  <2> QED BY <2>2, SubSeqFull
<1> QED BY <1>3, <1>4, <1>5, <1>6, <1>7

-----------------------------------------------------------------------------
ReadsChunk(chunk, answer) ==
    /\ limit \in Limits /\ clock \in 0..limit.seconds
    /\ chunk \in Seq(Bytes) /\ read \in Nat /\ read + Len(chunk) <= limit.typed
    /\ FilesOK(imageFiles, read)
    /\ answer \in [{i \in 1..Len(chunk) : KeysAt(chunk, i) # {}} -> Answers]

\* What the scan has done with the first i bytes of a chunk, the paste key it may be
\* in included.
ScanOK(chunk, i, d) ==
    /\ DOMAIN d = {"out", "files", "inKey"}
    /\ d.out \in Seq(BytesAndReferences) /\ d.inKey \in Nat /\ i + d.inKey <= Len(chunk)
    /\ FilesOK(d.files, read + i) /\ Extends(d.files, imageFiles) /\ Referenced(d.out, d.files)
    /\ ~limit.unsaved => Keys(d.out) = SubSeq(chunk, 1, i + d.inKey)

LEMMA FilesGrow ==
    ASSUME NEW m \in Nat, NEW files, FilesOK(files, m)
    PROVE  FilesOK(files, m + 1)
<1>1. \A p \in Paths : p.counter \in Nat
  BY DEF Paths
<1> QED BY <1>1 DEF FilesOK

\* One more piece of the chunk is in the output.
LEMMA ScanGrows ==
    ASSUME NEW chunk \in Seq(Bytes), NEW h \in 0..Len(chunk), NEW j \in h..Len(chunk),
           NEW got \in Seq(BytesAndReferences), Keys(got) = SubSeq(chunk, 1, h),
           NEW more \in Seq(BytesAndReferences), Keys(more) = SubSeq(chunk, h + 1, j)
    PROVE  Keys(got \o more) = SubSeq(chunk, 1, j)
<1>1. Len(chunk) \in Nat
  OBVIOUS
<1>2. 1 \in 1..(Len(chunk) + 1) /\ h \in (1 - 1)..Len(chunk)
  BY <1>1
<1>3. Keys(got \o more) = Keys(got) \o Keys(more)
  BY ReferencesTypable, KeysConcat
<1>4. SubSeq(chunk, 1, h) \o SubSeq(chunk, h + 1, j) = SubSeq(chunk, 1, j)
  BY <1>2, ConcatAdjacentSubSeq
<1> QED BY <1>3, <1>4

\* A byte that begins no paste key goes on to the output as it is.
LEMMA PlainByte ==
    ASSUME NEW chunk, NEW answer, ReadsChunk(chunk, answer), NEW i \in 1..Len(chunk), NEW d,
           ScanOK(chunk, i - 1, d), d.inKey = 0
    PROVE  ScanOK(chunk, i, [d EXCEPT !.out = Append(@, chunk[i])])
<1> DEFINE b == chunk[i]
           e == [d EXCEPT !.out = Append(@, b)]
<1>1. /\ chunk \in Seq(Bytes) /\ Len(chunk) \in Nat /\ b \in Bytes /\ b \in BytesAndReferences
      /\ i \in Nat /\ i <= Len(chunk) /\ read \in Nat
  <2>1. chunk \in Seq(Bytes) /\ read \in Nat
    BY DEF ReadsChunk
  <2>2. Len(chunk) \in Nat /\ b \in Bytes
    BY <2>1
  <2> QED BY <2>1, <2>2 DEF BytesAndReferences
<1>2. /\ DOMAIN e = {"out", "files", "inKey"}
      /\ e.out = Append(d.out, b) /\ e.files = d.files /\ e.inKey = 0
  <2>1. DOMAIN d = {"out", "files", "inKey"}
    BY DEF ScanOK
  <2> QED BY <2>1
<1>3. /\ d.out \in Seq(BytesAndReferences) /\ <<b>> \in Seq(BytesAndReferences)
      /\ Append(d.out, b) = d.out \o <<b>> /\ <<b>> \in Seq(Bytes)
  <2>1. d.out \in Seq(BytesAndReferences)
    BY DEF ScanOK
  <2> HIDE DEF b
  <2>2. <<b>> \in Seq(BytesAndReferences) /\ <<b>> \in Seq(Bytes)
    BY <1>1
  <2>3. Append(d.out, b) = d.out \o <<b>>
    BY <1>1, <2>1
  <2> QED BY <2>1, <2>2, <2>3
<1>4. e.out \in Seq(BytesAndReferences)
  BY <1>1, <1>2, <1>3
<1>5. Referenced(e.out, e.files)
  <2>1. Len(<<b>>) = 1 /\ <<b>>[1] = b
    OBVIOUS
  <2>2. Referenced(<<b>>, d.files)
    BY <1>1, <2>1 DEF Referenced
  <2> QED BY <1>2, <1>3, <2>2, ReferencedConcat DEF ScanOK
<1>6. FilesOK(e.files, read + i)
  <2>1. (read + (i - 1)) + 1 = read + i /\ read + (i - 1) \in Nat
    BY <1>1
  <2>2. FilesOK(d.files, read + (i - 1))
    BY DEF ScanOK
  <2> QED BY <1>2, <2>1, <2>2, FilesGrow
<1>7. ASSUME ~limit.unsaved
      PROVE  Keys(e.out) = SubSeq(chunk, 1, i + e.inKey)
  <2> DEFINE h == i - 1
  <2>1. h \in 0..Len(chunk) /\ i \in h..Len(chunk) /\ h + 1 = i /\ h + 0 = h /\ i + 0 = i
        /\ h < i /\ h \in Int
    BY <1>1
  <2>2. Keys(d.out) = SubSeq(chunk, 1, h)
    BY <1>7, <2>1 DEF ScanOK
  <2>3. SubSeq(chunk, i, i) = <<b>>
    <3>1. SubSeq(chunk, i, i) = SubSeq(chunk, i, i - 1) \o <<chunk[i]>>
      <4>1. i \in 1..Len(chunk) /\ i \in i..Len(chunk)
        BY <1>1
      <4> QED BY <1>1, <4>1, SubSeqRecursiveSecond
    <3>2. SubSeq(chunk, i, i - 1) = <<>>
      BY <1>1, <2>1, SubSeqEmpty
    <3>3. <<>> \o <<b>> = <<b>>
      BY <1>3, ConcatEmptySeq
    <3> QED BY <3>1, <3>2, <3>3
  <2>4. Keys(<<b>>) = <<b>>
    BY <1>3, KeysOfBytes
  <2> HIDE DEF h
  <2>5. Keys(<<b>>) = SubSeq(chunk, h + 1, i)
    BY <2>1, <2>3, <2>4
  <2>6. Keys(d.out \o <<b>>) = SubSeq(chunk, 1, i)
    <3>1. /\ chunk \in Seq(Bytes) /\ h \in 0..Len(chunk) /\ i \in h..Len(chunk)
          /\ d.out \in Seq(BytesAndReferences) /\ <<b>> \in Seq(BytesAndReferences)
      BY <1>1, <1>3, <2>1
    <3> HIDE DEF b
    <3> QED BY <2>2, <2>5, <3>1, ScanGrows
  <2> QED BY <1>2, <1>3, <2>1, <2>6
<1>8. Extends(e.files, imageFiles) /\ e.inKey \in Nat /\ i + e.inKey <= Len(chunk)
  BY <1>1, <1>2 DEF ScanOK
<1> HIDE DEF e
<1>9. ScanOK(chunk, i, e)
  BY <1>2, <1>4, <1>5, <1>6, <1>7, <1>8 DEF ScanOK
<1> QED BY <1>9 DEF e

\* The rest of a key that was taken care of is skipped.
LEMMA InKey ==
    ASSUME NEW chunk, NEW answer, ReadsChunk(chunk, answer), NEW i \in 1..Len(chunk), NEW d,
           ScanOK(chunk, i - 1, d), d.inKey > 0
    PROVE  ScanOK(chunk, i, [d EXCEPT !.inKey = @ - 1])
<1> DEFINE e == [d EXCEPT !.inKey = @ - 1]
<1>1. chunk \in Seq(Bytes) /\ Len(chunk) \in Nat /\ i \in Nat /\ read \in Nat
  BY DEF ReadsChunk
<1>2. /\ DOMAIN e = {"out", "files", "inKey"}
      /\ e.out = d.out /\ e.files = d.files /\ e.inKey = d.inKey - 1
  <2>1. DOMAIN d = {"out", "files", "inKey"}
    BY DEF ScanOK
  <2> QED BY <2>1
<1>3. d.inKey \in Nat /\ e.inKey \in Nat /\ i + e.inKey = (i - 1) + d.inKey
  BY <1>1, <1>2 DEF ScanOK
<1>4. FilesOK(e.files, read + i)
  <2>1. (read + (i - 1)) + 1 = read + i /\ read + (i - 1) \in Nat
    BY <1>1
  <2>2. FilesOK(d.files, read + (i - 1))
    BY DEF ScanOK
  <2> QED BY <1>2, <2>1, <2>2, FilesGrow
<1>5. ~limit.unsaved => Keys(e.out) = SubSeq(chunk, 1, i + e.inKey)
  BY <1>2, <1>3 DEF ScanOK
<1> HIDE DEF e
<1>6. ScanOK(chunk, i, e)
  BY <1>2, <1>3, <1>4, <1>5 DEF ScanOK
<1> QED BY <1>6 DEF e

LEMMA KeysAtAre ==
    ASSUME NEW chunk \in Seq(Bytes), NEW i \in 1..Len(chunk), NEW key \in KeysAt(chunk, i)
    PROVE  /\ key \in Triggers /\ key \in Seq(Bytes) /\ Len(key) \in 1..2
           /\ i + (Len(key) - 1) \in i..Len(chunk)
           /\ SubSeq(chunk, i, i + (Len(key) - 1)) = key
<1>1. key \in Triggers
  BY DEF KeysAt
<1>2. key \in Seq(Bytes) /\ Len(key) \in 1..2
  BY <1>1, KeyIs
<1>3. /\ i + Len(key) - 1 = i + (Len(key) - 1) /\ Len(chunk) \in Nat /\ i \in Nat
      /\ i + (Len(key) - 1) >= i
  <2>1. Len(key) \in 1..2
    BY <1>2
  <2>2. Len(chunk) \in Nat /\ i \in Nat
    OBVIOUS
  <2>3. \A k \in 1..2 : i + k - 1 = i + (k - 1) /\ i + (k - 1) >= i
    BY <2>2
  <2> QED BY <2>1, <2>2, <2>3
<1>4. i + Len(key) - 1 <= Len(chunk) /\ SubSeq(chunk, i, i + Len(key) - 1) = key
  BY DEF KeysAt
<1> QED BY <1>1, <1>2, <1>3, <1>4

\* A paste key: all that may become of it.
LEMMA PastedKeeps ==
    ASSUME NEW chunk, NEW answers, ReadsChunk(chunk, answers), NEW i \in 1..Len(chunk), NEW d,
           ScanOK(chunk, i - 1, d), d.inKey = 0, NEW key \in KeysAt(chunk, i),
           NEW answer \in Answers
    PROVE  ScanOK(chunk, i, Pasted(key, answer, d))
<1> DEFINE e == Pasted(key, answer, d)
           image == HostImage(answer.clipboard)
           path == FreePath(d.files, image)
           ref == [path |-> path, image |-> image, key |-> key]
           h == i - 1
           j == i + (Len(key) - 1)
<1>1. /\ chunk \in Seq(Bytes) /\ Len(chunk) \in Nat /\ i \in Nat /\ i <= Len(chunk) /\ read \in Nat
      /\ h \in 0..Len(chunk) /\ h \in Nat /\ h + 1 = i /\ (read + h) + 1 = read + i
      /\ h + 0 = h
  BY DEF ReadsChunk
<1>2. /\ DOMAIN d = {"out", "files", "inKey"} /\ d.out \in Seq(BytesAndReferences)
      /\ FilesOK(d.files, read + h) /\ Extends(d.files, imageFiles) /\ Referenced(d.out, d.files)
      /\ ~limit.unsaved => Keys(d.out) = SubSeq(chunk, 1, h)
  BY <1>1 DEF ScanOK
<1>3. /\ key \in Triggers /\ key \in Seq(Bytes) /\ key \in Seq(BytesAndReferences)
      /\ Len(key) \in 1..2 /\ j \in i..Len(chunk) /\ j \in h..Len(chunk) /\ j = i + (Len(key) - 1)
      /\ SubSeq(chunk, h + 1, j) = key
  <2>1. /\ key \in Triggers /\ key \in Seq(Bytes) /\ Len(key) \in 1..2
        /\ j \in i..Len(chunk) /\ SubSeq(chunk, i, j) = key
    BY <1>1, KeysAtAre
  <2>2. key \in Seq(BytesAndReferences)
    BY <2>1, SeqMonotonic DEF BytesAndReferences
  <2> HIDE DEF j
  <2>3. j \in h..Len(chunk)
    BY <1>1, <2>1
  <2> QED BY <1>1, <2>1, <2>2, <2>3 DEF j
<1>4. image \in Images \cup {NoImage}
  <2>1. answer.clipboard \in [1..Len(Tools) -> Images \cup {NoImage}]
    BY DEF Answers
  <2> QED BY <2>1, HostImageIs
<1>5. FilesOK(d.files, read + i)
  BY <1>1, <1>2, FilesGrow
<1>6. CASE image = NoImage
  <2>1. /\ DOMAIN e = {"out", "files", "inKey"}
        /\ e.out = d.out \o key /\ e.files = d.files /\ e.inKey = Len(key) - 1
    BY <1>2, <1>6 DEF Pasted
  <2> HIDE DEF e, h, j
  <2>2. d.out \o key \in Seq(BytesAndReferences)
    BY <1>2, <1>3, ConcatProperties
  <2>3. Referenced(d.out \o key, d.files)
    <3>1. \A n \in 1..Len(key) : key[n] \in Bytes
      <4>1. key \in Seq(Bytes)
        BY <1>3
      <4> QED BY <4>1, ElementOfSeq
    <3>2. Referenced(key, d.files)
      BY <3>1 DEF Referenced
    <3> QED BY <1>2, <1>3, <3>2, ReferencedConcat
  <2>4. ~limit.unsaved => Keys(d.out \o key) = SubSeq(chunk, 1, j)
    <3>1. Keys(key) = SubSeq(chunk, h + 1, j)
      BY <1>3, KeysOfBytes
    <3> QED BY <1>1, <1>2, <1>3, <3>1, ScanGrows
  <2>5. Len(key) - 1 \in Nat /\ i + (Len(key) - 1) <= Len(chunk)
    BY <1>3
  <2>6. ScanOK(chunk, i, e)
    BY <1>2, <1>3, <1>5, <2>1, <2>2, <2>3, <2>4, <2>5 DEF ScanOK
  <2> QED BY <2>6 DEF e
<1>7. CASE image # NoImage /\ ~answer.saved
  <2>1. /\ DOMAIN e = {"out", "files", "inKey"}
        /\ e.out = d.out /\ e.files = d.files /\ e.inKey = Len(key) - 1
    BY <1>2, <1>7 DEF Pasted
  <2>2. limit.unsaved
    BY <1>7 DEF Answers
  <2>3. Len(key) - 1 \in Nat /\ i + (Len(key) - 1) <= Len(chunk)
    BY <1>3
  <2> HIDE DEF e, h, j
  <2>4. ScanOK(chunk, i, e)
    BY <1>2, <1>3, <1>5, <2>1, <2>2, <2>3 DEF ScanOK
  <2> QED BY <2>4 DEF e
<1>8. CASE image # NoImage /\ answer.saved
  <2> DEFINE grown == [p \in DOMAIN d.files \cup {path} |-> IF p = path THEN image ELSE d.files[p]]
  <2>1. /\ DOMAIN e = {"out", "files", "inKey"}
        /\ e.out = Append(d.out, ref) /\ e.files = grown /\ e.inKey = Len(key) - 1
    BY <1>2, <1>8 DEF Pasted
  <2>2. /\ limit \in Limits /\ clock \in 0..limit.seconds /\ clock \in Nat
        /\ read + h \in 0..limit.typed
    <3>1. limit \in Limits /\ clock \in 0..limit.seconds /\ read + Len(chunk) <= limit.typed
      BY DEF ReadsChunk
    <3>2. limit.typed \in Nat /\ limit.seconds \in Nat
      BY <3>1, PtyAssumption
    <3> QED BY <1>1, <3>1, <3>2
  <2>3. image \in Images /\ path \in Paths /\ path \notin DOMAIN d.files /\ path.counter < read + i
    <3>1. image \in Images
      BY <1>4, <1>8
    <3> HIDE DEF image, h
    <3>2. path \in Paths /\ path \notin DOMAIN d.files /\ path.counter < (read + h) + 1
      BY <1>2, <2>2, <3>1, FreePathIsFree
    <3> QED BY <1>1, <3>1, <3>2
  <2>4. ref \in References /\ ref.key = key /\ ref.path = path /\ ref.image = image
    BY <1>3, <2>3 DEF References
  <2>5. ref \in BytesAndReferences /\ KeyOf(ref) = key
    BY <2>2, <2>4, KeyOfReference DEF BytesAndReferences
  <2> HIDE DEF e, h, j, ref, path, image
  <2>6. Extends(grown, d.files)
    BY <2>3 DEF Extends
  <2>7. /\ DOMAIN grown = DOMAIN d.files \cup {path} /\ grown[path] = image
        /\ \A p \in DOMAIN d.files : grown[p] = d.files[p]
    BY <2>3
  <2> HIDE DEF grown
  <2>8. FilesOK(grown, read + i)
    BY <1>5, <2>3, <2>7 DEF FilesOK
  <2>9. Extends(grown, imageFiles)
    BY <1>2, <2>6 DEF Extends
  <2>10. <<ref>> \in Seq(BytesAndReferences) /\ Append(d.out, ref) = d.out \o <<ref>>
         /\ Len(<<ref>>) = 1 /\ <<ref>>[1] = ref
    BY <1>2, <2>5
  <2>11. Referenced(d.out \o <<ref>>, grown) /\ d.out \o <<ref>> \in Seq(BytesAndReferences)
    <3>1. Referenced(<<ref>>, grown)
      BY <2>4, <2>7, <2>10 DEF Referenced
    <3>2. Referenced(d.out, grown)
      BY <1>2, <2>6, ReferencedStays
    <3> QED BY <1>2, <2>10, <3>1, <3>2, ReferencedConcat, ConcatProperties
  <2>12. ~limit.unsaved => Keys(d.out \o <<ref>>) = SubSeq(chunk, 1, j)
    <3>1. Keys(<<ref>>) = key
      <4>1. Append(<<>>, ref) = <<ref>> /\ <<>> \in Seq(BytesAndReferences)
        BY <2>5
      <4>2. <<>> \o key = key
        BY <1>3, ConcatEmptySeq
      <4> QED BY <2>5, <4>1, <4>2, KeysEmpty, KeysAppend, ReferencesTypable
    <3>2. Keys(<<ref>>) = SubSeq(chunk, h + 1, j)
      BY <1>3, <3>1
    <3> QED BY <1>1, <1>2, <1>3, <2>10, <3>2, ScanGrows
  <2>13. Len(key) - 1 \in Nat /\ i + (Len(key) - 1) <= Len(chunk)
    BY <1>3 DEF j
  <2>14. ScanOK(chunk, i, e)
    BY <1>3, <2>1, <2>8, <2>9, <2>10, <2>11, <2>12, <2>13 DEF ScanOK
  <2> QED BY <2>14 DEF e
<1> QED BY <1>6, <1>7, <1>8

\* One byte of the scan.
LEMMA ScannedKeeps ==
    ASSUME NEW chunk, NEW answer, ReadsChunk(chunk, answer), NEW i \in 1..Len(chunk), NEW d,
           ScanOK(chunk, i - 1, d)
    PROVE  ScanOK(chunk, i, Scanned(chunk, answer, i, d))
<1>1. d.inKey \in Nat
  BY DEF ScanOK
<1>2. CASE d.inKey > 0
  BY <1>2, InKey DEF Scanned
<1>3. CASE d.inKey = 0
  <2>1. CASE KeysAt(chunk, i) = {}
    BY <1>3, <2>1, PlainByte DEF Scanned
  <2>2. CASE KeysAt(chunk, i) # {}
    <3> DEFINE key == CHOOSE k \in KeysAt(chunk, i) : TRUE
    <3>1. key \in KeysAt(chunk, i)
      BY <2>2
    <3>2. answer[i] \in Answers
      BY <2>2 DEF ReadsChunk
    <3>3. Scanned(chunk, answer, i, d) = Pasted(key, answer[i], d)
      BY <1>3, <2>2 DEF Scanned
    <3> HIDE DEF key
    <3> QED BY <1>3, <3>1, <3>2, <3>3, PastedKeeps
  <2> QED BY <2>1, <2>2
<1> QED BY <1>1, <1>2, <1>3

\* s is the scan of a chunk up to byte n.
Scans(s, chunk, answer, n) ==
    s = [i \in 0..n |-> IF i = 0 THEN [out |-> <<>>, files |-> imageFiles, inKey |-> 0]
                        ELSE Scanned(chunk, answer, i, s[i - 1])]

LEMMA ScansExist ==
    ASSUME NEW chunk, NEW answer, NEW m \in Nat
    PROVE  \E s : Scans(s, chunk, answer, m)
<1> DEFINE start == [out |-> <<>>, files |-> imageFiles, inKey |-> 0]
           S == {n \in Nat : \E s : Scans(s, chunk, answer, n)}
<1>1. 0 \in S
  <2> DEFINE g == [i \in 0..0 |-> start]
  <2>1. \A i \in 0..0 : i = 0
    OBVIOUS
  <2>2. g = [i \in 0..0 |-> IF i = 0 THEN start ELSE Scanned(chunk, answer, i, g[i - 1])]
    BY <2>1
  <2>3. Scans(g, chunk, answer, 0)
    BY <2>2 DEF Scans
  <2> QED BY <2>3
<1>2. ASSUME NEW n \in Nat, n \in S
      PROVE  n + 1 \in S
  <2>1. PICK f : Scans(f, chunk, answer, n)
    BY <1>2
  <2> DEFINE g == [i \in 0..(n + 1) |->
                     IF i = n + 1 THEN Scanned(chunk, answer, n + 1, f[n]) ELSE f[i]]
  <2>2. \A i \in 0..n : f[i] = IF i = 0 THEN start ELSE Scanned(chunk, answer, i, f[i - 1])
    BY <2>1 DEF Scans
  <2>3. g = [i \in 0..(n + 1) |-> g[i]]
    OBVIOUS
  <2>4. ASSUME NEW i \in 0..n
        PROVE  g[i] = f[i]
    OBVIOUS
  <2>5. g[n + 1] = Scanned(chunk, answer, n + 1, f[n])
    OBVIOUS
  <2> HIDE DEF g
  <2>6. ASSUME NEW i \in 0..(n + 1)
        PROVE  g[i] = IF i = 0 THEN start ELSE Scanned(chunk, answer, i, g[i - 1])
    <3>1. CASE i = n + 1
      <4>1. i # 0 /\ i - 1 = n /\ n \in 0..n
        BY <3>1
      <4>2. g[i - 1] = f[n]
        BY <2>4, <4>1
      <4> QED BY <2>5, <3>1, <4>1, <4>2
    <3>2. CASE i # n + 1
      <4>1. i \in 0..n /\ (i # 0 => i - 1 \in 0..n)
        BY <3>2
      <4>2. g[i] = f[i] /\ (i # 0 => g[i - 1] = f[i - 1])
        BY <2>4, <4>1
      <4> QED BY <2>2, <4>1, <4>2
    <3> QED BY <3>1, <3>2
  <2>7. g = [i \in 0..(n + 1) |-> IF i = 0 THEN start ELSE Scanned(chunk, answer, i, g[i - 1])]
    BY <2>3, <2>6
  <2>8. Scans(g, chunk, answer, n + 1)
    BY <2>7 DEF Scans
  <2> QED BY <2>8
<1> HIDE DEF S
<1>3. 0..m \subseteq S
  BY <1>1, <1>2, UpTo
<1> QED BY <1>3 DEF S

\* The interceptor keeps what was saved, refers to what it saves, and its output is
\* what the user has typed to get it.
LEMMA InterceptedKeeps ==
    ASSUME NEW chunk, NEW answer, ReadsChunk(chunk, answer)
    PROVE  LET d == Intercepted(chunk, answer)
           IN  /\ d.out \in Seq(BytesAndReferences)
               /\ FilesOK(d.files, read + Len(chunk)) /\ Extends(d.files, imageFiles)
               /\ Referenced(d.out, d.files)
               /\ ~limit.unsaved => Keys(d.out) = chunk
<1> DEFINE l == Len(chunk)
           s == CHOOSE f : Scans(f, chunk, answer, l)
<1>1. chunk \in Seq(Bytes) /\ l \in Nat /\ read \in Nat /\ FilesOK(imageFiles, read)
  BY DEF ReadsChunk
<1>2. Scans(s, chunk, answer, l)
  BY <1>1, ScansExist
<1>3. Intercepted(chunk, answer) = s[l]
  BY DEF Intercepted, Scans
<1> HIDE DEF s
<1>4. /\ s[0] = [out |-> <<>>, files |-> imageFiles, inKey |-> 0]
      /\ \A i \in 1..l : s[i] = Scanned(chunk, answer, i, s[i - 1])
  BY <1>1, <1>2 DEF Scans
<1> DEFINE T == {n \in Nat : n <= l => ScanOK(chunk, n, s[n])}
<1>5. 0 \in T
  <2>1. <<>> \in Seq(BytesAndReferences) /\ Len(<<>>) = 0
    OBVIOUS
  <2>2. SubSeq(chunk, 1, 0 + 0) = <<>>
    BY SubSeqEmpty
  <2>3. Referenced(<<>>, imageFiles) /\ Extends(imageFiles, imageFiles)
    BY <2>1 DEF Referenced, Extends
  <2>4. /\ DOMAIN s[0] = {"out", "files", "inKey"}
        /\ s[0].out = <<>> /\ s[0].files = imageFiles /\ s[0].inKey = 0
    BY <1>4
  <2>5. read + 0 = read /\ 0 + 0 <= Len(chunk)
    BY <1>1
  <2>6. /\ Keys(s[0].out) = SubSeq(chunk, 1, 0 + s[0].inKey)
        /\ FilesOK(s[0].files, read + 0) /\ Extends(s[0].files, imageFiles)
        /\ Referenced(s[0].out, s[0].files)
    BY <1>1, <2>2, <2>3, <2>4, <2>5, KeysEmpty
  <2>7. s[0].out \in Seq(BytesAndReferences) /\ s[0].inKey \in Nat /\ 0 + s[0].inKey <= Len(chunk)
    BY <2>1, <2>4, <2>5
  <2>8. ScanOK(chunk, 0, s[0])
    BY <2>4, <2>6, <2>7 DEF ScanOK
  <2> QED BY <2>8
<1>6. ASSUME NEW n \in 0..(l - 1), n \in T
      PROVE  n + 1 \in T
  <2>1. n + 1 \in 1..l /\ (n + 1) - 1 = n /\ n <= l /\ n + 1 \in Nat
    BY <1>1
  <2>2. s[n + 1] = Scanned(chunk, answer, n + 1, s[n])
    BY <1>4, <2>1
  <2>3. ScanOK(chunk, (n + 1) - 1, s[n])
    BY <1>6, <2>1
  <2> HIDE DEF T
  <2>4. ScanOK(chunk, n + 1, s[n + 1])
    BY <2>1, <2>2, <2>3, ScannedKeeps
  <2> QED BY <2>1, <2>4 DEF T
<1>7. ScanOK(chunk, l, s[l])
  <2>1. 0..l \subseteq T
    <3> HIDE DEF T
    <3> QED BY <1>1, <1>5, <1>6, UpTo
  <2>2. l \in 0..l /\ l <= l
    BY <1>1
  <2> QED BY <2>1, <2>2
<1>8. s[l].inKey = 0 /\ l + s[l].inKey = l
  BY <1>1, <1>7 DEF ScanOK
<1>9. SubSeq(chunk, 1, l) = chunk
  BY <1>1, SubSeqFull
<1> QED BY <1>3, <1>7, <1>8, <1>9 DEF ScanOK

-----------------------------------------------------------------------------
\* Where the input is: what was read has been written to the child or is in the hands
\* of _write_all, and the files that it names are there.
Keyed == InHand("writeMaster")

InputTypes ==
    /\ limit \in Limits /\ clock \in 0..limit.seconds
    /\ typed \in Seq(Bytes) /\ Len(typed) <= limit.typed /\ read \in 0..Len(typed)
    /\ toChild \in Seq(BytesAndReferences) /\ taken \in 0..Len(toChild)
    /\ Keyed \in Seq(BytesAndReferences) /\ (phase = "writeMaster" => Keyed # <<>>)

FilesNamed ==
    /\ FilesOK(imageFiles, read)
    /\ Referenced(toChild, imageFiles) /\ Referenced(Keyed, imageFiles)

InputInv ==
    /\ InputTypes /\ FilesNamed
    /\ phase \in Setup => read = 0 /\ toChild = <<>>
    /\ KeysArrive

\* The scenario does not change.
LEMMA SameScenario ==
    ASSUME limit' = limit
    PROVE  /\ Paths' = Paths /\ BytesAndReferences' = BytesAndReferences
BY DEF Paths, BytesAndReferences, References

\* What a step that keeps the invariant leaves behind.
LEMMA InputAfter ==
    ASSUME limit \in Limits, limit' = limit, clock' \in 0..limit.seconds,
           typed' \in Seq(Bytes), Len(typed') <= limit.typed, read' \in 0..Len(typed'),
           toChild' \in Seq(BytesAndReferences), taken' \in 0..Len(toChild'),
           Keyed' \in Seq(BytesAndReferences), phase' = "writeMaster" => Keyed' # <<>>,
           FilesOK(imageFiles', read'), Referenced(toChild', imageFiles'),
           Referenced(Keyed', imageFiles'),
           phase' \in Setup => read' = 0 /\ toChild' = <<>>,
           KeysArrive'
    PROVE  InputInv'
<1>1. Paths' = Paths /\ BytesAndReferences' = BytesAndReferences
  BY SameScenario
<1>2. InputTypes'
  BY <1>1 DEF InputTypes
<1>3. FilesOK(imageFiles, read)'
  BY <1>1 DEF FilesOK
<1>4. FilesNamed'
  BY <1>3 DEF FilesNamed, Referenced
<1> QED BY <1>2, <1>4 DEF InputInv

\* A step that leaves the input alone, or gives up what is in hand for good.
LEMMA InputSame ==
    ASSUME InputInv, UNCHANGED <<limit, typed, read, toChild, imageFiles>>,
           clock' \in 0..limit.seconds, taken' \in 0..Len(toChild),
           Keyed' \in {Keyed, <<>>},
           phase' = "writeMaster" => phase = "writeMaster" /\ Keyed' = Keyed,
           phase' \in Setup => phase \in Setup,
           phase' \in Pumping => phase \in Pumping /\ Keyed' = Keyed
    PROVE  InputInv'
<1>1. Keyed' \in Seq(BytesAndReferences) /\ Referenced(Keyed', imageFiles)
  <2>1. <<>> \in Seq(BytesAndReferences) /\ Len(<<>>) = 0
    OBVIOUS
  <2>2. Referenced(<<>>, imageFiles)
    BY <2>1 DEF Referenced
  <2>3. Keyed \in Seq(BytesAndReferences) /\ Referenced(Keyed, imageFiles)
    BY DEF InputInv, InputTypes, FilesNamed
  <2> QED BY <2>1, <2>2, <2>3
<1>2. KeysArrive'
  BY DEF InputInv, KeysArrive, Keyed
<1>3. /\ limit \in Limits /\ typed \in Seq(Bytes) /\ Len(typed) <= limit.typed
      /\ read \in 0..Len(typed) /\ toChild \in Seq(BytesAndReferences)
      /\ phase = "writeMaster" => Keyed # <<>>
  BY DEF InputInv, InputTypes
<1>4. /\ FilesOK(imageFiles, read) /\ Referenced(toChild, imageFiles)
      /\ phase \in Setup => read = 0 /\ toChild = <<>>
  BY DEF InputInv, FilesNamed
<1>5. /\ typed' = typed /\ read' = read /\ toChild' = toChild /\ imageFiles' = imageFiles
      /\ limit' = limit
  OBVIOUS
<1>6. /\ typed' \in Seq(Bytes) /\ Len(typed') <= limit.typed /\ read' \in 0..Len(typed')
      /\ toChild' \in Seq(BytesAndReferences) /\ taken' \in 0..Len(toChild')
      /\ FilesOK(imageFiles', read') /\ Referenced(toChild', imageFiles')
      /\ Referenced(Keyed', imageFiles')
  BY <1>1, <1>3, <1>4, <1>5
<1> QED BY <1>1, <1>2, <1>3, <1>4, <1>5, <1>6, InputAfter

\* What is read goes through the interceptor into the hands of _write_all ...
LEMMA ReadStdinKeeps == InputInv /\ ReadStdin => InputInv'
<1> SUFFICES ASSUME InputInv, ReadStdin
             PROVE  InputInv'
  OBVIOUS
<1>1. /\ phase = "stdin" /\ Keyed = <<>> /\ phase' \notin Setup
      /\ UNCHANGED <<limit, typed, toChild, taken, clock>>
  BY DEF ReadStdin, Keyed, InHand, PumpAt, AfterStdin, Setup
<1>2. CASE read = Len(typed) /\ PumpAt("wait") /\ UNCHANGED <<read, imageFiles>>
  <2>1. Keyed' = <<>> /\ phase' = "wait"
    BY <1>2 DEF PumpAt, Keyed, InHand
  <2> QED BY <1>1, <1>2, <2>1, InputSame DEF InputInv, InputTypes, Setup, Pumping
<1>3. CASE ~ (read = Len(typed) /\ PumpAt("wait") /\ UNCHANGED <<read, imageFiles>>)
  <2>1. /\ typed \in Seq(Bytes) /\ Len(typed) \in Nat /\ read \in 0..Len(typed) /\ read \in Nat
        /\ Len(typed) <= limit.typed /\ limit \in Limits
    BY DEF InputInv, InputTypes
  <2> DEFINE n == Least(Chunk, Len(typed) - read)
             chunk == SubSeq(typed, read + 1, read + n)
  <2>2. /\ read < Len(typed)
        /\ \E answer \in [{i \in 1..n : KeysAt(chunk, i) # {}} -> Answers] :
              LET result == Intercepted(chunk, answer)
              IN  /\ pending' = result.out
                  /\ imageFiles' = result.files
                  /\ phase' = IF result.out = <<>> THEN AfterStdin ELSE "writeMaster"
                  /\ read' = read + n
    BY <1>3 DEF ReadStdin
  <2>3. PICK answer \in [{i \in 1..n : KeysAt(chunk, i) # {}} -> Answers] :
              /\ pending' = Intercepted(chunk, answer).out
              /\ imageFiles' = Intercepted(chunk, answer).files
              /\ phase' = IF Intercepted(chunk, answer).out = <<>> THEN AfterStdin
                          ELSE "writeMaster"
              /\ read' = read + n
    BY <2>2
  <2>4. n \in 1..(Len(typed) - read) /\ n \in Nat /\ read + n \in 0..Len(typed)
        /\ read + n \in Nat
    BY <2>1, <2>2, PtyAssumption DEF Least
  <2> HIDE DEF n
  <2>5. chunk \in Seq(Bytes) /\ Len(chunk) = n
    <3> DEFINE a == read + 1
               b == read + n
    <3>1. a \in Int /\ b \in Int /\ a <= b /\ b - a + 1 = n /\ \A i \in a..b : i \in 1..Len(typed)
      BY <2>1, <2>4
    <3>2. \A i \in a..b : typed[i] \in Bytes
      BY <2>1, <3>1, ElementOfSeq
    <3> HIDE DEF a, b
    <3>3. SubSeq(typed, a, b) \in Seq(Bytes) /\ Len(SubSeq(typed, a, b)) = b - a + 1
      BY <3>1, <3>2, SubSeqProperties
    <3> QED BY <3>1, <3>3 DEF a, b
  <2> HIDE DEF chunk
  <2> DEFINE d == Intercepted(chunk, answer)
  <2>6. ReadsChunk(chunk, answer)
    <3>1. read + Len(chunk) <= limit.typed
      BY <2>1, <2>4, <2>5, PtyAssumption
    <3>2. clock \in 0..limit.seconds /\ FilesOK(imageFiles, read)
      BY DEF InputInv, InputTypes, FilesNamed
    <3> QED BY <2>1, <2>5, <3>1, <3>2 DEF ReadsChunk
  <2>7. /\ d.out \in Seq(BytesAndReferences)
        /\ FilesOK(d.files, read + Len(chunk)) /\ Extends(d.files, imageFiles)
        /\ Referenced(d.out, d.files)
        /\ ~limit.unsaved => Keys(d.out) = chunk
    BY <2>6, InterceptedKeeps
  <2>8. Keyed' = d.out /\ (phase' = "writeMaster" => Keyed' # <<>>) /\ read' = read + n
        /\ imageFiles' = d.files
    BY <2>3 DEF Keyed, InHand, AfterStdin
  <2> HIDE DEF d
  <2>9. FilesOK(imageFiles', read') /\ Referenced(toChild, imageFiles')
        /\ Referenced(Keyed', imageFiles')
    BY <2>5, <2>7, <2>8, ReferencedStays DEF InputInv, FilesNamed
  <2>10. KeysArrive'
    <3> SUFFICES ASSUME ~limit.unsaved
                 PROVE  Keys(toChild \o Keyed') = SubSeq(typed, 1, read + n)
      BY <1>1, <2>8 DEF KeysArrive, Keyed
    <3>1. toChild \in Seq(BytesAndReferences) /\ toChild \o <<>> = toChild
      BY ConcatEmptySeq DEF InputInv, InputTypes
    <3>2. Keys(toChild) = SubSeq(typed, 1, read)
      BY <1>1, <3>1 DEF InputInv, KeysArrive, Pumping, Keyed
    <3>5. Keys(Keyed') = chunk
      BY <2>7, <2>8
    <3>6. chunk = SubSeq(typed, read + 1, read + n)
      BY DEF chunk
    <3>3. Keys(toChild \o Keyed') = Keys(toChild) \o Keys(Keyed')
      BY <2>7, <2>8, <3>1, ReferencesTypable, KeysConcat
    <3>4. SubSeq(typed, 1, read) \o SubSeq(typed, read + 1, read + n) = SubSeq(typed, 1, read + n)
      <4>1. 1 \in 1..(Len(typed) + 1) /\ read \in (1 - 1)..Len(typed)
            /\ read + n \in read..Len(typed)
        BY <2>1, <2>4
      <4> QED BY <2>1, <4>1, ConcatAdjacentSubSeq
    <3> QED BY <3>2, <3>3, <3>4, <3>5, <3>6
  <2>11. /\ typed' = typed /\ toChild' = toChild /\ taken' = taken /\ clock' = clock
         /\ limit' = limit /\ phase' \notin Setup
    BY <1>1
  <2>12. /\ toChild \in Seq(BytesAndReferences) /\ taken \in 0..Len(toChild)
         /\ clock \in 0..limit.seconds
    BY DEF InputInv, InputTypes
  <2>13. /\ typed' \in Seq(Bytes) /\ Len(typed') <= limit.typed /\ read' \in 0..Len(typed')
         /\ toChild' \in Seq(BytesAndReferences) /\ taken' \in 0..Len(toChild')
         /\ clock' \in 0..limit.seconds /\ Referenced(toChild', imageFiles')
         /\ Keyed' \in Seq(BytesAndReferences)
    BY <2>1, <2>4, <2>7, <2>8, <2>9, <2>11, <2>12
  <2> QED BY <2>1, <2>8, <2>9, <2>10, <2>11, <2>13, InputAfter
<1> QED BY <1>2, <1>3

\* ... and from there to the child, a part at a time.
LEMMA WriteMasterKeeps == InputInv /\ WriteMaster => InputInv'
<1> SUFFICES ASSUME InputInv, WriteMaster
             PROVE  InputInv'
  OBVIOUS
<1>1. /\ phase = "writeMaster" /\ Keyed = pending /\ phase' \notin Setup
      /\ UNCHANGED <<limit, typed, read, taken, imageFiles, clock>>
  BY DEF WriteMaster, Keyed, InHand, AfterStdin, Setup
<1>2. /\ Keyed \in Seq(BytesAndReferences) /\ Keyed # <<>> /\ Len(Keyed) \in Nat \ {0}
      /\ toChild \in Seq(BytesAndReferences) /\ Len(toChild) \in Nat
      /\ taken \in 0..Len(toChild) /\ Referenced(Keyed, imageFiles)
      /\ Referenced(toChild, imageFiles) /\ limit.capacity \in Nat
  BY <1>1, PtyAssumption DEF InputInv, InputTypes, FilesNamed
<1> DEFINE n == Least(limit.capacity - (Len(toChild) - taken), Len(pending))
           a == SubSeq(Keyed, 1, n)
           b == SubSeq(Keyed, n + 1, Len(Keyed))
<1>3. n \in 1..Len(Keyed)
  BY <1>1, <1>2 DEF WriteMaster, Least
<1>4. /\ toChild' = toChild \o a /\ pending' = b
      /\ phase' = IF b = <<>> THEN AfterStdin ELSE "writeMaster"
  BY <1>1 DEF WriteMaster
<1>5. /\ a \in Seq(BytesAndReferences) /\ b \in Seq(BytesAndReferences)
      /\ Referenced(a, imageFiles) /\ Referenced(b, imageFiles) /\ a \o b = Keyed
  <2> HIDE DEF n
  <2> QED BY <1>2, <1>3, ReferencedCut
<1> HIDE DEF a, b, n
<1>6. Keyed' = b /\ (phase' = "writeMaster" => Keyed' # <<>>)
  BY <1>4 DEF Keyed, InHand, AfterStdin
<1>7. toChild' \in Seq(BytesAndReferences) /\ Len(toChild') = Len(toChild) + Len(a)
      /\ Len(a) \in Nat /\ Referenced(toChild', imageFiles)
  BY <1>2, <1>4, <1>5, ConcatProperties, ReferencedConcat
<1>8. taken' \in 0..Len(toChild')
  BY <1>1, <1>2, <1>7
<1>9. /\ typed' = typed /\ read' = read /\ imageFiles' = imageFiles /\ clock' = clock
      /\ limit' = limit
  BY <1>1
<1>10. KeysArrive'
  <2>1. toChild' \o Keyed' = toChild \o Keyed
    <3>1. (toChild \o a) \o b = toChild \o (a \o b)
      <4>1. /\ toChild \in Seq(BytesAndReferences) /\ a \in Seq(BytesAndReferences)
            /\ b \in Seq(BytesAndReferences)
        BY <1>2, <1>5
      <4> QED BY ONLY <4>1, ConcatAssociative
    <3> QED BY <1>4, <1>5, <1>6, <3>1
  <2>2. ~limit.unsaved => Keys(toChild \o Keyed) = SubSeq(typed, 1, read)
    BY <1>1 DEF InputInv, KeysArrive, Keyed, Pumping
  <2>3. (toChild \o Keyed)' = toChild \o Keyed
    BY <2>1
  <2>4. Keys((toChild \o Keyed)') = Keys(toChild \o Keyed)
    BY <2>3
  <2>5. ~limit.unsaved => Keys((toChild \o Keyed)') = SubSeq(typed', 1, read')
    BY <1>9, <2>2, <2>4
  <2> QED BY <1>9, <2>5 DEF KeysArrive, Keyed
<1>11. /\ typed' \in Seq(Bytes) /\ Len(typed') <= limit.typed /\ read' \in 0..Len(typed')
       /\ limit \in Limits /\ clock' \in 0..limit.seconds
  BY <1>9 DEF InputInv, InputTypes
<1>12. /\ FilesOK(imageFiles', read') /\ Referenced(toChild', imageFiles')
       /\ Referenced(Keyed', imageFiles')
  BY <1>5, <1>6, <1>7, <1>9 DEF InputInv, FilesNamed
<1> QED BY <1>1, <1>5, <1>6, <1>7, <1>8, <1>9, <1>10, <1>11, <1>12, InputAfter

\* The pump begins with nothing read and nothing written.
LEMMA SpawnKeeps == InputInv /\ Spawn => InputInv'
<1> SUFFICES ASSUME InputInv, Spawn
             PROVE  InputInv'
  OBVIOUS
<1>1. /\ phase \in Setup /\ phase' \in {"check", "raised"} /\ Keyed' = <<>>
      /\ UNCHANGED <<limit, typed, read, toChild, taken, imageFiles, clock>>
  BY DEF Spawn, PumpAt, Keyed, InHand, Setup, inVars
<1>2. /\ limit \in Limits /\ clock \in 0..limit.seconds /\ typed \in Seq(Bytes)
      /\ Len(typed) <= limit.typed /\ read \in 0..Len(typed) /\ read = 0
      /\ toChild = <<>> /\ toChild \in Seq(BytesAndReferences) /\ taken \in 0..Len(toChild)
      /\ FilesOK(imageFiles, read) /\ Referenced(toChild, imageFiles)
  BY <1>1 DEF InputInv, InputTypes, FilesNamed
<1>3. KeysArrive'
  <2>1. Keys(toChild' \o Keyed') = <<>> /\ SubSeq(typed', 1, read') = <<>>
    <3>1. <<>> \o <<>> = <<>>
      OBVIOUS
    <3>2. SubSeq(typed, 1, 0) = <<>>
      BY SubSeqEmpty
    <3> QED BY <1>1, <1>2, <3>1, <3>2, KeysEmpty
  <2> QED BY <2>1 DEF KeysArrive, Keyed
<1>4. /\ typed' \in Seq(Bytes) /\ Len(typed') <= limit.typed /\ read' \in 0..Len(typed')
      /\ clock' \in 0..limit.seconds /\ toChild' \in Seq(BytesAndReferences)
      /\ taken' \in 0..Len(toChild')
  BY <1>1, <1>2
<1>5. /\ Keyed' \in Seq(BytesAndReferences) /\ FilesOK(imageFiles', read')
      /\ Referenced(toChild', imageFiles') /\ Referenced(Keyed', imageFiles')
  BY <1>1, <1>2
<1>6. phase' \notin Setup /\ phase' # "writeMaster"
  BY <1>1 DEF Setup
<1> QED BY <1>1, <1>2, <1>3, <1>4, <1>5, <1>6, InputAfter

\* What is typed is behind what is read.
LEMMA TypeKeeps == InputInv /\ Type => InputInv'
<1> SUFFICES ASSUME InputInv, Type
             PROVE  InputInv'
  OBVIOUS
<1>1. PICK b \in Bytes : typed' = Append(typed, b)
  BY DEF Type
<1>2. /\ Len(typed) < limit.typed
      /\ UNCHANGED <<limit, phase, pending, read, toChild, taken, imageFiles, clock>>
  BY DEF Type, pumpVars
<1>3. /\ limit \in Limits /\ clock \in 0..limit.seconds /\ typed \in Seq(Bytes)
      /\ Len(typed) \in Nat /\ read \in 0..Len(typed) /\ limit.typed \in Nat
      /\ toChild \in Seq(BytesAndReferences) /\ taken \in 0..Len(toChild)
  BY PtyAssumption DEF InputInv, InputTypes
<1>4. typed' \in Seq(Bytes) /\ Len(typed') = Len(typed) + 1
  BY <1>1, <1>3
<1>5. Len(typed') <= limit.typed /\ read' \in 0..Len(typed')
  BY <1>2, <1>3, <1>4
<1>6. SubSeq(typed', 1, read) = SubSeq(typed, 1, read)
  <2>1. \A i \in 1..read : typed'[i] = typed[i]
    BY <1>1, <1>3
  <2>2. read \in Nat /\ read <= Len(typed) /\ read <= Len(typed')
    BY <1>3, <1>4
  <2> QED BY <1>3, <1>4, <2>1, <2>2
<1>7. Keyed' = Keyed
  BY <1>2 DEF Keyed, InHand
<1>8. KeysArrive'
  <2>1. (toChild \o Keyed)' = toChild \o Keyed
    BY <1>2, <1>7
  <2>2. Keys((toChild \o Keyed)') = Keys(toChild \o Keyed)
    BY <2>1
  <2>3. phase \in Pumping /\ ~limit.unsaved => Keys(toChild \o Keyed) = SubSeq(typed, 1, read)
    BY DEF InputInv, KeysArrive, Keyed
  <2>4. phase' \in Pumping /\ ~limit'.unsaved
            => Keys((toChild \o Keyed)') = SubSeq(typed', 1, read')
    BY <1>2, <1>6, <2>2, <2>3
  <2> QED BY <2>4 DEF KeysArrive, Keyed
<1>9. /\ Keyed \in Seq(BytesAndReferences) /\ (phase = "writeMaster" => Keyed # <<>>)
      /\ FilesOK(imageFiles, read) /\ Referenced(toChild, imageFiles)
      /\ Referenced(Keyed, imageFiles) /\ (phase \in Setup => read = 0 /\ toChild = <<>>)
  BY DEF InputInv, InputTypes, FilesNamed
<1>10. /\ Keyed' \in Seq(BytesAndReferences) /\ (phase' = "writeMaster" => Keyed' # <<>>)
       /\ FilesOK(imageFiles', read') /\ Referenced(toChild', imageFiles')
       /\ Referenced(Keyed', imageFiles') /\ (phase' \in Setup => read' = 0 /\ toChild' = <<>>)
       /\ toChild' \in Seq(BytesAndReferences) /\ taken' \in 0..Len(toChild')
       /\ clock' \in 0..limit.seconds
  BY <1>2, <1>3, <1>7, <1>9
<1> QED BY <1>2, <1>3, <1>4, <1>5, <1>8, <1>10, InputAfter

LEMMA InputStep == InputInv /\ [PtyNext]_ptyVars => InputInv'
<1> SUFFICES ASSUME InputInv, [PtyNext]_ptyVars
             PROVE  InputInv'
  OBVIOUS
<1> DEFINE Same == UNCHANGED <<limit, typed, read, toChild, imageFiles>>
<1>1. clock \in 0..limit.seconds /\ limit.seconds \in Nat /\ taken \in 0..Len(toChild)
      /\ Len(toChild) \in Nat
  BY PtyAssumption DEF InputInv, InputTypes
<1>2. CASE OpenPty \/ EnterRaw \/ HandleWinch
  <2>1. /\ phase \in Setup /\ phase' \in Setup /\ Keyed' = Keyed /\ Same
        /\ clock' = clock /\ taken' = taken
    BY <1>2 DEF OpenPty, EnterRaw, HandleWinch, PumpAt, Setup, Keyed, InHand, inVars
  <2>2. phase' \notin Pumping /\ phase' # "writeMaster"
    BY <2>1 DEF Setup, Pumping
  <2> QED BY <1>1, <2>1, <2>2, InputSame
<1>3. CASE Spawn
  BY <1>3, SpawnKeeps
<1>4. CASE CheckRunning \/ Select \/ ReadMaster \/ WriteStdout
  <2>1. /\ phase \in Pumping /\ phase' \notin Setup /\ phase' # "writeMaster"
        /\ phase # "writeMaster" /\ Same /\ clock' = clock /\ taken' = taken
    BY <1>4 DEF CheckRunning, Select, ReadMaster, WriteStdout, PumpAt, Setup, Pumping, inVars
  <2>2. Keyed' = <<>> /\ Keyed = <<>>
    BY <2>1 DEF Keyed, InHand
  <2> QED BY <1>1, <2>1, <2>2, InputSame
<1>5. CASE ReadStdin
  BY <1>5, ReadStdinKeeps
<1>6. CASE WriteMaster
  BY <1>6, WriteMasterKeeps
<1>7. CASE WaitForChild \/ AtExit \/ Interrupt
  <2>1. /\ phase' \in {"returned", "gone", "raised", "wait"} /\ Same
        /\ clock' = clock /\ taken' = taken
    BY <1>7 DEF WaitForChild, AtExit, Interrupt, PumpAt, inVars
  <2>2. phase' \notin Setup /\ phase' \notin Pumping /\ phase' # "writeMaster" /\ Keyed' = <<>>
    BY <2>1 DEF Keyed, InHand, Setup, Pumping
  <2> QED BY <1>1, <2>1, <2>2, InputSame
<1>8. CASE Type
  BY <1>8, TypeKeeps
<1>9. CASE OnWinch \/ CloseStdin \/ CloseStdout \/ Resize \/ Tick \/ ChildReads \/ ChildPrints
             \/ ChildEnds \/ UNCHANGED ptyVars
  <2>1. phase' = phase /\ pending' = pending /\ Same
    BY <1>9 DEF OnWinch, CloseStdin, CloseStdout, Resize, Tick, ChildReads, ChildPrints,
                ChildEnds, ptyVars, pumpVars, inVars
  <2>2. /\ clock' \in {clock, clock + 1} /\ clock' <= limit.seconds
        /\ taken' \in {taken, taken + 1} /\ taken' <= Len(toChild)
    BY <1>1, <1>9 DEF OnWinch, CloseStdin, CloseStdout, Resize, Tick, ChildReads, ChildPrints,
                      ChildEnds, ptyVars, pumpVars, inVars
  <2>3. Keyed' = Keyed /\ clock' \in 0..limit.seconds /\ taken' \in 0..Len(toChild')
    BY <1>1, <2>1, <2>2 DEF Keyed, InHand
  <2> QED BY <2>1, <2>3, InputSame
<1> QED BY <1>2, <1>3, <1>4, <1>5, <1>6, <1>7, <1>8, <1>9
        DEF PtyNext, SetupStep, PumpStep, EndStep, Environment

LEMMA InputInitially == PtyInit => InputInv
<1> SUFFICES ASSUME PtyInit
             PROVE  InputInv
  OBVIOUS
<1>1. /\ limit \in Limits /\ clock = 0 /\ typed = <<>> /\ read = 0 /\ toChild = <<>>
      /\ taken = 0 /\ phase = "start" /\ imageFiles = <<>> /\ limit.seconds \in Nat
      /\ limit.typed \in Nat /\ Len(<<>>) = 0
  BY PtyAssumption DEF PtyInit
<1>2. Keyed = <<>> /\ phase \notin Pumping
  BY <1>1 DEF Keyed, InHand, Pumping
<1>3. InputTypes
  BY <1>1, <1>2 DEF InputTypes
<1>4. DOMAIN imageFiles = {}
  BY <1>1
<1>5. FilesNamed
  BY <1>1, <1>2, <1>4 DEF FilesNamed, FilesOK, Referenced
<1> QED BY <1>1, <1>2, <1>3, <1>5 DEF InputInv, KeysArrive

LEMMA InputAlways == PtySpec => []InputInv
BY InputInitially, InputStep, PTL DEF PtySpec

\* While the pump runs and images can be saved, every key it has read is in the child's
\* terminal or in hand, once and in its place, whatever the limits, the paste keys, the
\* clipboard and the sizes of chunks and buffers (the pump and its interceptor).
THEOREM KeysAlwaysArrive == PtySpec => []KeysArrive
<1>1. InputInv => KeysArrive
  BY DEF InputInv
<1> QED BY <1>1, InputAlways, PTL

\* A reference in the child's hands names the file of its image for good, however many
\* pastes fall into one second (PasteInterceptor's file names).
THEOREM PastesAlwaysKept == PtySpec => []PastesKept
<1>1. InputInv => PastesKept
  BY DEF InputInv, InputTypes, FilesNamed, Referenced, PastesKept
<1> QED BY <1>1, InputAlways, PTL
-----------------------------------------------------------------------------
\* The types of what the invariant of the input says nothing about.
PumpTypes ==
    /\ phase \in Setup \cup Pumping \cup {"wait"} \cup Over
    /\ ready \subseteq {"stdin", "master"}
    /\ masterOpen \in BOOLEAN /\ interrupted \in BOOLEAN /\ stdinOpen \in BOOLEAN
    /\ viewer \in BOOLEAN /\ tty \in {"cooked", "raw", "given up"} /\ winch \in BOOLEAN
    /\ sigwinch \in BOOLEAN /\ missed \in BOOLEAN
    /\ child \in {"unborn", "running", "closed", "exited"}
    /\ ttySize \in 0..limit.resized /\ ptySize \in 0..limit.resized

PrintTypes ==
    /\ printed \in 0..limit.printed
    /\ outbuf \in Seq(1..limit.printed) /\ shown \in Seq(1..limit.printed)
    /\ phase = "writeStdout" => pending \in Seq(1..limit.printed) \ {<<>>}
    /\ phase \notin {"writeMaster", "writeStdout"} => pending = <<>>

LEMMA LimitStays == [PtyNext]_ptyVars => limit' = limit
BY DEF pumpVars, PumpAt, PtyNext, SetupStep, PumpStep, EndStep, Environment, OpenPty, EnterRaw,
       HandleWinch, Spawn, CheckRunning, Select, ReadStdin, WriteMaster, ReadMaster, WriteStdout,
       WaitForChild, AtExit, Interrupt, OnWinch, Type, CloseStdin, CloseStdout, Resize, Tick,
       ChildReads, ChildPrints, ChildEnds, ptyVars

LEMMA PumpTypesStep ==
    ASSUME limit \in Limits, PumpTypes, [PtyNext]_ptyVars
    PROVE  PumpTypes'
<1> DEFINE Phases == Setup \cup Pumping \cup {"wait"} \cup Over
           Flags == /\ masterOpen \in BOOLEAN /\ interrupted \in BOOLEAN
                    /\ stdinOpen \in BOOLEAN /\ viewer \in BOOLEAN
                    /\ tty \in {"cooked", "raw", "given up"}
                    /\ winch \in BOOLEAN /\ sigwinch \in BOOLEAN /\ missed \in BOOLEAN
                    /\ child \in {"unborn", "running", "closed", "exited"}
           Sizes == ttySize \in 0..limit.resized /\ ptySize \in 0..limit.resized
<1>0. Sizes /\ limit' = limit /\ limit.resized \in Nat
  BY LimitStays, PtyAssumption DEF PumpTypes
<1>1. Flags /\ Sizes /\ phase \in Phases /\ ready \subseteq {"stdin", "master"}
      /\ limit' = limit /\ limit.resized \in Nat
  BY LimitStays, PtyAssumption DEF PumpTypes
<1> USE DEF pumpVars, inVars, outVars, sizeVars, PumpAt
<1>2. Flags'
  <2>1. /\ masterOpen' \in {masterOpen, FALSE} /\ interrupted' \in {interrupted, TRUE}
        /\ stdinOpen' \in {stdinOpen, FALSE} /\ viewer' \in {viewer, FALSE}
    BY DEF PtyNext, SetupStep, PumpStep, EndStep, Environment, OpenPty, EnterRaw,
         HandleWinch, Spawn, CheckRunning, Select, ReadStdin, WriteMaster, ReadMaster,
         WriteStdout, WaitForChild, AtExit, Interrupt, OnWinch, Type, CloseStdin, CloseStdout,
         Resize, Tick, ChildReads, ChildPrints, ChildEnds, ptyVars
  <2>2. /\ tty' \in {tty, "cooked", "raw", "given up"} /\ winch' \in {winch, TRUE, FALSE}
        /\ sigwinch' \in {sigwinch, winch, FALSE} /\ missed' \in {missed, ~winch, FALSE}
        /\ child' \in {child, "running", "closed", "exited"}
    BY DEF PtyNext, SetupStep, PumpStep, EndStep, Environment, OpenPty, EnterRaw,
         HandleWinch, Spawn, CheckRunning, Select, ReadStdin, WriteMaster, ReadMaster,
         WriteStdout, WaitForChild, AtExit, Interrupt, OnWinch, Type, CloseStdin, CloseStdout,
         Resize, Tick, ChildReads, ChildPrints, ChildEnds, ptyVars, Restore
  <2>3. missed' \in BOOLEAN /\ sigwinch' \in BOOLEAN
    <3>1. missed \in BOOLEAN /\ winch \in BOOLEAN /\ sigwinch \in BOOLEAN
      BY <1>1
    <3>2. (~winch) \in BOOLEAN
      OBVIOUS
    <3> QED BY <2>2, <3>1, <3>2
  <2>4. tty' \in {"cooked", "raw", "given up"} /\ winch' \in BOOLEAN
        /\ child' \in {"unborn", "running", "closed", "exited"}
    BY <1>1, <2>2
  <2> QED BY <1>1, <2>1, <2>3, <2>4
<1>3. Sizes'
  <2>1. CASE Resize
    <3>1. ttySize < limit.resized /\ ttySize' = ttySize + 1 /\ ptySize' = ptySize
      BY <2>1 DEF Resize
    <3>2. limit'.resized = limit.resized /\ limit.resized \in Nat /\ ttySize \in Nat
          /\ ptySize \in 0..limit.resized
      BY <1>0
    <3> QED BY <3>1, <3>2
  <2>2. CASE ~Resize
    <3>1. ttySize' = ttySize /\ ptySize' \in {ptySize, ttySize}
      BY <2>2 DEF PtyNext, SetupStep, PumpStep, EndStep, Environment, OpenPty, EnterRaw,
         HandleWinch, Spawn, CheckRunning, Select, ReadStdin, WriteMaster, ReadMaster,
         WriteStdout, WaitForChild, AtExit, Interrupt, OnWinch, Type, CloseStdin, CloseStdout,
         Tick, ChildReads, ChildPrints, ChildEnds, ptyVars
    <3> QED BY <1>1, <3>1
  <2> QED BY <2>1, <2>2
<1>4. phase' \in Phases
  <2>1. CASE PumpStep
    <3>1. phase' \in {"select", "wait", "stdin", "master", "check", "writeMaster", "writeStdout"}
      BY <2>1 DEF PumpStep, CheckRunning, Select, ReadMaster, ReadStdin, WriteMaster,
                  WriteStdout, AfterStdin
    <3> QED BY <3>1 DEF Pumping
  <2>2. CASE SetupStep \/ EndStep \/ Interrupt
    <3>1. phase' \in {"sized", "raw", "handled", "check", "raised", "returned", "gone", "wait"}
      BY <2>2 DEF SetupStep, OpenPty, EnterRaw, HandleWinch, Spawn, EndStep, WaitForChild,
                  AtExit, Interrupt
    <3> QED BY <3>1 DEF Setup, Pumping, Over
  <2>3. CASE OnWinch \/ Environment \/ UNCHANGED ptyVars
    <3>1. phase' = phase
      BY <2>3 DEF OnWinch, Environment, Type, CloseStdin, CloseStdout, Resize, Tick, ChildReads,
                  ChildPrints, ChildEnds, ptyVars
    <3> QED BY <1>1, <3>1
  <2> QED BY <2>1, <2>2, <2>3 DEF PtyNext
<1>5. ready' \in {ready, Readable}
  BY DEF PtyNext, SetupStep, PumpStep, EndStep, Environment, OpenPty, EnterRaw,
         HandleWinch, Spawn, CheckRunning, Select, ReadStdin, WriteMaster, ReadMaster,
         WriteStdout, WaitForChild, AtExit, Interrupt, OnWinch, Type, CloseStdin, CloseStdout,
         Resize, Tick, ChildReads, ChildPrints, ChildEnds, ptyVars
<1>6. ready' \subseteq {"stdin", "master"}
  BY <1>1, <1>5 DEF Readable
<1> QED BY <1>2, <1>3, <1>4, <1>6 DEF PumpTypes

\* The two parts of a sequence.
LEMMA PartTypes ==
    ASSUME NEW S, NEW s \in Seq(S), NEW n \in 1..Len(s)
    PROVE  /\ SubSeq(s, 1, n) \in Seq(S) \ {<<>>}
           /\ SubSeq(s, n + 1, Len(s)) \in Seq(S)
<1>1. SubSeq(s, 1, n) \in Seq(S) /\ Len(SubSeq(s, 1, n)) = n /\ n # 0 /\ Len(<<>>) = 0
  OBVIOUS
<1>2. SubSeq(s, n + 1, Len(s)) \in Seq(S)
  <2> DEFINE m == n + 1
             l == Len(s)
  <2>1. m \in Int /\ l \in Int /\ \A i \in m..l : s[i] \in S
    OBVIOUS
  <2> HIDE DEF m, l
  <2> QED BY <2>1, SubSeqProperties DEF m, l
<1> QED BY <1>1, <1>2

LEMMA PrintTypesStep ==
    ASSUME limit \in Limits, PumpTypes, PrintTypes, [PtyNext]_ptyVars
    PROVE  PrintTypes'
<1> USE DEF pumpVars, inVars, outVars, PumpAt
<1>1. limit.printed \in Nat /\ printed \in 0..limit.printed /\ limit' = limit
  <2>1. limit' = limit
    BY LimitStays
  <2> QED BY <2>1, PtyAssumption DEF PrintTypes
<1> DEFINE Out == Seq(1..limit.printed)
<1>2. outbuf \in Out /\ shown \in Out
  BY DEF PrintTypes
<1>3. CASE SetupStep \/ EndStep \/ Interrupt \/ CheckRunning \/ Select
  <2>1. /\ UNCHANGED <<printed, outbuf, shown>> /\ phase' \notin {"writeMaster", "writeStdout"}
        /\ pending' = <<>>
    BY <1>3 DEF PrintTypes, Setup, SetupStep, OpenPty, EnterRaw, HandleWinch, Spawn, EndStep,
                WaitForChild, AtExit, Interrupt, CheckRunning, Select
  <2> QED BY <1>1, <1>2, <2>1 DEF PrintTypes
<1>4. CASE ReadStdin \/ WriteMaster
  <2>1. /\ UNCHANGED <<printed, outbuf, shown>> /\ phase' # "writeStdout"
        /\ phase' # "writeMaster" => pending' = <<>>
    BY <1>4 DEF PrintTypes, ReadStdin, WriteMaster, AfterStdin
  <2> QED BY <1>1, <1>2, <2>1 DEF PrintTypes
<1>5. CASE ReadMaster
  <2>1. CASE outbuf = <<>>
    BY <1>1, <1>2, <1>5, <2>1 DEF PrintTypes, ReadMaster
  <2>2. CASE outbuf # <<>>
    <3>1. PICK n \in 1..Len(outbuf) :
             /\ pending' = SubSeq(outbuf, 1, n) /\ outbuf' = SubSeq(outbuf, n + 1, Len(outbuf))
      <4>1. Len(outbuf) \in Nat \ {0}
        BY <1>2, <2>2
      <4>2. Least(Chunk, Len(outbuf)) \in 1..Len(outbuf)
        BY <4>1, PtyAssumption DEF Least
      <4> QED BY <1>5, <2>2, <4>2 DEF ReadMaster, OnStdout
    <3>2. phase' = "writeStdout" /\ UNCHANGED <<printed, shown>>
      BY <1>5, <2>2 DEF ReadMaster
    <3>3. pending' \in Out \ {<<>>} /\ outbuf' \in Out
      BY <1>2, <3>1, PartTypes
    <3> QED BY <1>1, <1>2, <3>2, <3>3 DEF PrintTypes
  <2> QED BY <2>1, <2>2
<1>6. CASE WriteStdout
  <2>1. /\ phase' = (IF pending' = <<>> THEN "check" ELSE "writeStdout")
        /\ UNCHANGED <<printed, outbuf>> /\ pending \in Out
    BY <1>6 DEF PrintTypes, WriteStdout
  <2>2. shown' \in Out /\ pending' \in Out
    <3>1. CASE ~viewer
      <4>1. <<>> \in Out /\ pending' = <<>> /\ shown' = shown
        BY <1>6, <3>1 DEF WriteStdout
      <4> QED BY <1>2, <4>1
    <3>2. CASE viewer
      <4>1. PICK n \in 1..Len(pending) : /\ shown' = shown \o SubSeq(pending, 1, n)
                                         /\ pending' = SubSeq(pending, n + 1, Len(pending))
        BY <1>6, <3>2 DEF WriteStdout
      <4>2. SubSeq(pending, 1, n) \in Out /\ SubSeq(pending, n + 1, Len(pending)) \in Out
        BY <2>1, PartTypes
      <4>3. shown \o SubSeq(pending, 1, n) \in Out
        <5> DEFINE t == SubSeq(pending, 1, n)
                   N == 1..limit.printed
        <5>1. shown \in Seq(N) /\ t \in Seq(N)
          BY <1>2, <4>2
        <5> HIDE DEF t, N
        <5>2. shown \o t \in Seq(N)
          BY ONLY <5>1, ConcatProperties
        <5> QED BY <5>2 DEF t, N
      <4> QED BY <4>1, <4>2, <4>3
    <3> QED BY <3>1, <3>2
  <2> QED BY <1>1, <2>1, <2>2 DEF PrintTypes
<1>7. CASE ChildPrints
  <2>1. printed' = printed + 1 /\ printed' \in 1..limit.printed /\ printed' \in 0..limit.printed
        /\ outbuf' = Append(outbuf, printed') /\ UNCHANGED <<phase, pending, shown>>
    BY <1>1, <1>7 DEF ChildPrints
  <2>2. outbuf' \in Out
    <3> DEFINE N == 1..limit.printed
    <3>1. outbuf \in Seq(N) /\ printed' \in N
      BY <1>2, <2>1
    <3> HIDE DEF N
    <3>2. Append(outbuf, printed') \in Seq(N)
      BY <3>1
    <3> QED BY <2>1, <3>2 DEF N
  <2> QED BY <1>1, <1>2, <2>1, <2>2 DEF PrintTypes
<1>8. CASE OnWinch \/ Type \/ CloseStdin \/ CloseStdout \/ Resize \/ Tick \/ ChildReads
           \/ ChildEnds \/ UNCHANGED ptyVars
  <2>1. UNCHANGED <<phase, pending, printed, outbuf, shown>>
    BY <1>8 DEF OnWinch, Type, CloseStdin, CloseStdout, Resize, Tick, ChildReads, ChildEnds,
                ptyVars
  <2> QED BY <1>1, <2>1 DEF PrintTypes
<1> QED BY <1>3, <1>4, <1>5, <1>6, <1>7, <1>8 DEF PtyNext, PumpStep, Environment

PtyInv == InputInv /\ PumpTypes /\ PrintTypes

LEMMA PtyStep == PtyInv /\ [PtyNext]_ptyVars => PtyInv'
BY InputStep, PumpTypesStep, PrintTypesStep DEF PtyInv, InputInv, InputTypes

LEMMA PtyInitially == PtyInit => PtyInv
<1> SUFFICES ASSUME PtyInit
             PROVE  PtyInv
  OBVIOUS
<1>1. limit \in Limits /\ limit.resized \in Nat /\ limit.printed \in Nat
  BY PtyAssumption DEF PtyInit
<1>2. PumpTypes
  <2>1. /\ masterOpen \in BOOLEAN /\ interrupted \in BOOLEAN /\ stdinOpen \in BOOLEAN
        /\ viewer \in BOOLEAN /\ tty \in {"cooked", "raw", "given up"} /\ winch \in BOOLEAN
        /\ sigwinch \in BOOLEAN /\ missed \in BOOLEAN
    BY DEF PtyInit
  <2>2. phase \in Setup /\ ready = {} /\ child = "unborn"
    BY DEF PtyInit, Setup
  <2>3. ttySize \in 0..limit.resized /\ ptySize \in 0..limit.resized
    BY <1>1 DEF PtyInit
  <2> QED BY <2>1, <2>2, <2>3 DEF PumpTypes
<1>3. PrintTypes
  BY <1>1 DEF PtyInit, PrintTypes
<1> QED BY <1>2, <1>3, InputInitially DEF PtyInv

LEMMA PtyTypes == PtyInv => PtyTypeOK
<1> SUFFICES ASSUME PtyInv
             PROVE  PtyTypeOK
  OBVIOUS
<1>1. /\ limit \in Limits /\ clock \in 0..limit.seconds
      /\ typed \in Seq(Bytes) /\ read \in 0..Len(typed)
      /\ toChild \in Seq(Bytes \cup References) /\ taken \in 0..Len(toChild)
      /\ DOMAIN imageFiles \subseteq Paths
      /\ \A p \in DOMAIN imageFiles : imageFiles[p] \in Images
  BY DEF PtyInv, InputInv, InputTypes, FilesNamed, FilesOK, BytesAndReferences
<1>2. phase = "writeMaster" => pending \in Seq(Bytes \cup References) \ {<<>>}
  BY DEF PtyInv, InputInv, InputTypes, Keyed, InHand, BytesAndReferences
<1>3. \/ phase = "writeMaster" /\ pending \in Seq(Bytes \cup References) \ {<<>>}
      \/ phase = "writeStdout" /\ pending \in Seq(1..limit.printed) \ {<<>>}
      \/ phase \notin {"writeMaster", "writeStdout"} /\ pending = <<>>
  BY <1>2 DEF PtyInv, PrintTypes
<1> QED BY <1>1, <1>3 DEF PtyInv, PumpTypes, PrintTypes, PtyTypeOK
-----------------------------------------------------------------------------
(* The sidecars' proxies.                                                  *)

Stages == {"none", "handshake", "head", "body", "forward", "upstream", "stream", "relay",
           "release", "done"}
Requests == {<<>>} \cup UNION {Services[s].requests : s \in DOMAIN Services}
Connections ==
    [at : Stages, sock : {"open", "closed"}, peer : {"there", "deaf", "gone"},
     request : Requests,
     up : {"none", "asked", "answering", "failed", "stalled", "denied", "switched", "ended",
           "shut"},
     reached : BOOLEAN, retried : BOOLEAN, status : 0..2, answered : BOOLEAN,
     parts : 0..MaxParts, broke : BOOLEAN,
     down : {"read", "write", "ended"}, back : {"read", "write", "ended"}]

\* The type invariant, with the fields that it leaves out.
ProxyTypes ==
    /\ service \in DOMAIN Services
    /\ server \in {"serving", "stopping", "stopped", "severing", "closed"}
    /\ tracked \subseteq Conns /\ toSever \subseteq Conns
    /\ conn \in [Conns -> Connections]

\* What a client has been sent so far: nothing before the answer, one status line with it.
Untold(r) == r.at \in {"none", "handshake", "head", "body", "forward", "upstream"}
Progress(r) ==
    /\ r.at # "none" => r.request \in Services[service].requests
    /\ Untold(r) => r.status = 0 /\ ~r.answered
    /\ r.at \in {"stream", "relay"} => r.status <= 1
    /\ r.at = "relay" => ~r.answered
    /\ r.down # "ended" \/ r.back # "ended" => r.at \in {"relay", "release", "done"}

\* Nobody but the client has closed the connection: a proxy that is not being closed, or
\* one that leaves its handlers running.
Kept == server = "serving" \/ ~Severs

Served(r) ==
    /\ (Untold(r) /\ r.at # "none") \/ r.at = "stream" => r.sock = "open"
    /\ r.at \in {"stream", "relay"} => r.status = 1
    /\ r.at \in {"release", "done"} /\ r.peer = "there" =>
          /\ \/ r.status = 1
             \/ r.status = 2 /\ r.broke /\ (Sidecar = "kubectl" \/ r.request.upgrade)
             \/ r.status = 0 /\ Verdict(r.request) = "raised"
          /\ r.answered => r.parts = MaxParts \/ r.broke

\* The sockets that the OCI and S3 servers have still to close are known to them.
Severed(c) ==
    Severs /\ Open(c) =>
        /\ server # "closed"
        /\ server = "severing" => c \in toSever
        /\ server # "severing" => c \in tracked

ProxyInv ==
    /\ ProxyTypes
    /\ server = "severing" => Severs
    /\ \A c \in Conns : Progress(conn[c]) /\ (Kept => Served(conn[c])) /\ Severed(c)

\* What a step of one connection does.
Moved(c) ==
    /\ UNCHANGED <<service, server, tracked, toSever>>
    /\ conn' = [conn EXCEPT ![c] = conn'[c]]
    /\ conn'[c] \in Connections
    /\ conn'[c].sock = "open" => Open(c)
    /\ ~Open(c) => conn'[c].status = conn[c].status /\ conn'[c].parts = conn[c].parts
    /\ Progress(conn'[c])
    /\ Kept => Served(conn'[c])

\* A move of one connection keeps what the invariant says of the others.
LEMMA MovedKeeps ==
    ASSUME ProxyInv, NEW c \in Conns, Moved(c)
    PROVE  ProxyInv'
<1>1. UNCHANGED <<Sidecar, Severs, Kept, Services[service]>>
  BY DEF Moved, Sidecar, Severs, Kept
<1>2. \A d \in Conns \ {c} : conn'[d] = conn[d]
  BY DEF Moved, ProxyInv, ProxyTypes
<1>3. ProxyTypes'
  BY DEF Moved, ProxyInv, ProxyTypes
<1>4. ASSUME NEW d \in Conns
      PROVE  Progress(conn[d])' /\ (Kept => Served(conn[d]))' /\ Severed(d)'
  <2>1. Severed(d)'
    BY <1>1, <1>2 DEF Moved, Severed, ProxyInv, Open
  <2>2. Progress(conn[d])'
    BY <1>1, <1>2 DEF Moved, Progress, ProxyInv, Untold
  <2>3. (Kept => Served(conn[d]))'
    <3>1. CASE d = c
      BY <3>1 DEF Moved, Kept, Severs, Sidecar, Served, Untold, Verdict, ApiVerdict,
                  KubectlVerdict, OciVerdict, S3Verdict, Profiles
    <3>2. CASE d # c
      <4>1. conn'[d] = conn[d] /\ (Kept => Served(conn[d])) /\ UNCHANGED <<service, server>>
        BY <1>2, <3>2 DEF Moved, ProxyInv
      <4> QED BY <4>1 DEF Kept, Severs, Sidecar, Served, Untold, Verdict, ApiVerdict,
                          KubectlVerdict, OciVerdict, S3Verdict, Profiles
    <3> QED BY <3>1, <3>2
  <2> QED BY <2>1, <2>2, <2>3
<1>5. (server = "severing" => Severs)'
  BY <1>1 DEF ProxyInv, Moved
<1> QED BY <1>3, <1>4, <1>5 DEF ProxyInv


\* A move sets the stage, and the other fields are those of the record it is given.
LEMMA MoveFields ==
    ASSUME ProxyTypes, NEW c \in Conns, NEW stage \in Stages, NEW changed \in Connections,
           Move(c, stage, changed)
    PROVE  /\ UNCHANGED <<service, server, tracked, toSever>>
           /\ conn' = [conn EXCEPT ![c] = conn'[c]]
           /\ conn'[c] \in Connections
           /\ conn'[c].at = stage
           /\ conn'[c].sock = changed.sock /\ conn'[c].peer = changed.peer
           /\ conn'[c].request = changed.request
           /\ conn'[c].up = changed.up /\ conn'[c].reached = changed.reached
           /\ conn'[c].retried = changed.retried
           /\ conn'[c].status = changed.status /\ conn'[c].answered = changed.answered
           /\ conn'[c].parts = changed.parts
           /\ conn'[c].broke = changed.broke /\ conn'[c].down = changed.down
           /\ conn'[c].back = changed.back
<1>1. conn' = [conn EXCEPT ![c] = [changed EXCEPT !.at = stage]]
  BY DEF Move
<1>2. conn'[c] = [changed EXCEPT !.at = stage]
  BY <1>1 DEF ProxyTypes
<1>3. [changed EXCEPT !.at = stage] \in Connections
  BY DEF Connections
<1>4. /\ conn'[c].at = stage
      /\ conn'[c].sock = changed.sock /\ conn'[c].peer = changed.peer
      /\ conn'[c].request = changed.request
      /\ conn'[c].up = changed.up /\ conn'[c].reached = changed.reached
      /\ conn'[c].retried = changed.retried
      /\ conn'[c].status = changed.status /\ conn'[c].answered = changed.answered
      /\ conn'[c].parts = changed.parts
      /\ conn'[c].broke = changed.broke /\ conn'[c].down = changed.down
      /\ conn'[c].back = changed.back
  BY <1>2 DEF Connections
<1>5. conn' = [conn EXCEPT ![c] = conn'[c]] /\ conn'[c] \in Connections
  BY <1>1, <1>2, <1>3
<1> QED BY <1>4, <1>5 DEF Move

\* One status line more, if the socket is open, and no other change.
LEMMA StatusFields ==
    ASSUME ProxyTypes, NEW c \in Conns, conn[c].status <= 1
    PROVE  /\ WithStatus(c) \in Connections
           /\ WithStatus(c).status = IF Open(c) THEN conn[c].status + 1 ELSE conn[c].status
           /\ WithStatus(c).at = conn[c].at
           /\ WithStatus(c).sock = conn[c].sock /\ WithStatus(c).peer = conn[c].peer
           /\ WithStatus(c).request = conn[c].request
           /\ WithStatus(c).up = conn[c].up /\ WithStatus(c).reached = conn[c].reached
           /\ WithStatus(c).retried = conn[c].retried
           /\ WithStatus(c).answered = conn[c].answered /\ WithStatus(c).parts = conn[c].parts
           /\ WithStatus(c).broke = conn[c].broke
           /\ WithStatus(c).down = conn[c].down /\ WithStatus(c).back = conn[c].back
<1>1. conn[c] \in Connections
  BY DEF ProxyTypes
<1>2. CASE Open(c)
  BY <1>1, <1>2 DEF WithStatus, Connections
<1>3. CASE ~Open(c)
  <2>1. WithStatus(c) = conn[c]
    BY <1>1, <1>3 DEF WithStatus, Connections
  <2> QED BY <1>1, <1>3, <2>1
<1> QED BY <1>2, <1>3

\* A handler's step up to the answer.
LEMMA AskingMoves ==
    ASSUME ProxyInv, NEW c \in Conns,
           \/ Handshake(c) \/ ReadHead(c) \/ ReadBody(c) \/ Forward(c) \/ NoAnswer(c)
           \/ RefreshAndResend(c)
    PROVE  Moved(c)
<1>1. /\ ProxyTypes /\ conn[c] \in Connections
      /\ Progress(conn[c]) /\ (Kept => Served(conn[c]))
  BY DEF ProxyInv, ProxyTypes
<1> USE DEF Moved, Progress, Untold, Served, Stages
<1>2. CASE Handshake(c)
  BY <1>1, <1>2, MoveFields, StatusFields DEF Handshake, Open, Ended, MayRaise, Connections
<1>3. CASE ReadHead(c)
  <2>1. conn[c].at = "head" /\ conn[c].status = 0 /\ ~conn[c].answered
    BY <1>1, <1>3 DEF ReadHead
  <2>2. CASE MayRaise(c) /\ Move(c, "release", conn[c])
    BY <1>1, <2>1, <2>2, MoveFields DEF Open, Ended, MayRaise, Kept
  <2>3. CASE Open(c) /\ Move(c, "release", WithStatus(c))
    BY <1>1, <2>1, <2>3, MoveFields, StatusFields DEF Open
  <2>4. CASE /\ Verdict(conn[c].request) \notin {"refused", "admitted"}
             /\ Open(c) /\ Move(c, "release", conn[c])
    <3>1. Verdict(conn[c].request) = "raised"
      BY <2>4, <1>1, ProxyAssumption DEF Verdict, ApiVerdict, KubectlVerdict, OciVerdict,
                                         S3Verdict, ProxyTypes, Sidecar, Sidecars
    <3> QED BY <1>1, <2>1, <2>4, <3>1, MoveFields DEF Open
  <2>5. CASE Open(c) /\ \E stage \in {"forward", "body"} : Move(c, stage, conn[c])
    BY <1>1, <2>1, <2>5, MoveFields DEF Open
  <2> QED BY <1>3, <2>2, <2>3, <2>4, <2>5 DEF ReadHead
<1>4. CASE ReadBody(c)
  BY <1>1, <1>4, MoveFields, StatusFields DEF ReadBody, Open, Ended, MayRaise, Connections
<1>5. CASE Forward(c)
  <2> DEFINE r == [conn[c] EXCEPT !.up = "asked", !.reached = TRUE]
  <2>1. /\ r \in Connections
        /\ r.sock = conn[c].sock /\ r.request = conn[c].request /\ r.status = conn[c].status
        /\ r.answered = conn[c].answered /\ r.down = conn[c].down /\ r.back = conn[c].back
        /\ r.parts = conn[c].parts
    BY <1>1 DEF Connections
  <2>2. /\ conn[c].at = "forward"
        /\ Move(c, "upstream", r) \/ Move(c, "release", WithStatus(c))
    BY <1>5 DEF Forward
  <2> HIDE DEF r
  <2>3. CASE Move(c, "upstream", r)
    BY <1>1, <2>1, <2>2, <2>3, MoveFields DEF Open
  <2>4. CASE Move(c, "release", WithStatus(c))
    BY <1>1, <2>2, <2>4, MoveFields, StatusFields DEF Open
  <2> QED BY <2>2, <2>3, <2>4
<1>6. CASE NoAnswer(c)
  BY <1>1, <1>6, MoveFields, StatusFields DEF NoAnswer, Open, Ended, MayRaise, Connections
<1>7. CASE RefreshAndResend(c)
  <2> DEFINE r == [conn[c] EXCEPT !.retried = TRUE, !.up = "none"]
  <2>1. /\ r \in Connections
        /\ r.sock = conn[c].sock /\ r.request = conn[c].request /\ r.status = conn[c].status
        /\ r.answered = conn[c].answered /\ r.down = conn[c].down /\ r.back = conn[c].back
        /\ r.parts = conn[c].parts
    BY <1>1 DEF Connections
  <2>2. conn[c].at = "upstream" /\ Move(c, "forward", r)
    BY <1>7 DEF RefreshAndResend
  <2> HIDE DEF r
  <2> QED BY <1>1, <2>1, <2>2, MoveFields DEF Open
<1> QED BY <1>2, <1>3, <1>4, <1>5, <1>6, <1>7

\* A handler's step from the answer on.
LEMMA AnsweringMoves ==
    ASSUME ProxyInv, NEW c \in Conns,
           \/ Respond(c) \/ Stream(c) \/ StreamBroken(c) \/ Switch(c) \/ RelayJoin(c)
    PROVE  Moved(c)
<1>1. /\ ProxyTypes /\ conn[c] \in Connections
      /\ Progress(conn[c]) /\ (Kept => Served(conn[c]))
  BY DEF ProxyInv, ProxyTypes
<1> USE DEF Moved, Progress, Untold, Served, Stages
<1>2. CASE Respond(c)
  <2> DEFINE r == [WithStatus(c) EXCEPT !.answered = TRUE, !.up = "answering"]
  <2>1. conn[c].at = "upstream" /\ conn[c].status = 0 /\ ~conn[c].answered
    BY <1>1, <1>2 DEF Respond
  <2>2. WithStatus(c) \in Connections
    BY <1>1, <2>1, StatusFields
  <2>3. /\ r \in Connections /\ r.answered
        /\ r.sock = WithStatus(c).sock /\ r.request = WithStatus(c).request
        /\ r.status = WithStatus(c).status /\ r.parts = WithStatus(c).parts
        /\ r.down = WithStatus(c).down /\ r.back = WithStatus(c).back
    BY <2>2 DEF Connections
  <2> HIDE DEF r
  <2>4. CASE Open(c) /\ Move(c, "stream", r)
    BY <1>1, <2>1, <2>3, <2>4, MoveFields, StatusFields DEF Open
  <2>5. CASE MayRaise(c) /\ Move(c, "release", conn[c])
    BY <1>1, <2>1, <2>5, MoveFields DEF Open, Ended, MayRaise, Kept
  <2> QED BY <1>2, <2>4, <2>5 DEF Respond, r
<1>3. CASE Stream(c)
  <2>1. conn[c].at = "stream" /\ conn[c].status <= 1 /\ conn[c].parts \in 0..MaxParts
    BY <1>1, <1>3 DEF Stream, Connections
  <2> DEFINE r == [conn[c] EXCEPT !.parts = @ + 1]
  <2>2. conn[c].parts < MaxParts =>
        /\ r \in Connections
        /\ r.sock = conn[c].sock /\ r.peer = conn[c].peer /\ r.request = conn[c].request
        /\ r.status = conn[c].status /\ r.answered = conn[c].answered
        /\ r.broke = conn[c].broke
        /\ r.down = conn[c].down /\ r.back = conn[c].back
    BY <1>1, <2>1, ProxyAssumption DEF Connections
  <2> HIDE DEF r
  <2>3. CASE conn[c].parts < MaxParts /\ Open(c) /\ Move(c, "stream", r)
    BY <1>1, <2>1, <2>2, <2>3, MoveFields DEF Open
  <2>4. CASE MayRaise(c) /\ Move(c, "release", conn[c])
    BY <1>1, <2>1, <2>4, MoveFields DEF Open, Ended, MayRaise, Kept
  <2>5. CASE conn[c].parts = MaxParts /\ Move(c, "release", conn[c])
    BY <1>1, <2>1, <2>5, MoveFields DEF Open
  <2> QED BY <1>3, <2>3, <2>4, <2>5 DEF Stream, r
<1>4. CASE StreamBroken(c)
  <2>1. conn[c].at = "stream" /\ conn[c].status <= 1
    BY <1>1, <1>4 DEF StreamBroken
  <2> DEFINE told == [WithStatus(c) EXCEPT !.broke = TRUE]
             untold == [conn[c] EXCEPT !.broke = TRUE]
  <2>2. WithStatus(c) \in Connections
    BY <1>1, <2>1, StatusFields
  <2>3. /\ told \in Connections /\ told.broke
        /\ told.sock = WithStatus(c).sock /\ told.peer = WithStatus(c).peer
        /\ told.request = WithStatus(c).request
        /\ told.status = WithStatus(c).status /\ told.answered = WithStatus(c).answered
        /\ told.parts = WithStatus(c).parts
        /\ told.down = WithStatus(c).down /\ told.back = WithStatus(c).back
    BY <2>2 DEF Connections
  <2>4. /\ untold \in Connections /\ untold.broke
        /\ untold.sock = conn[c].sock /\ untold.peer = conn[c].peer
        /\ untold.request = conn[c].request
        /\ untold.status = conn[c].status /\ untold.answered = conn[c].answered
        /\ untold.parts = conn[c].parts
        /\ untold.down = conn[c].down /\ untold.back = conn[c].back
    BY <1>1 DEF Connections
  <2> HIDE DEF told, untold
  <2>5. CASE OneTry(c) /\ Move(c, "release", told)
    BY <1>1, <2>1, <2>3, <2>5, MoveFields, StatusFields DEF Open, OneTry
  <2>6. CASE ~OneTry(c) /\ Move(c, "release", untold)
    BY <1>1, <2>1, <2>4, <2>6, MoveFields DEF Open
  <2> QED BY <1>4, <2>5, <2>6 DEF StreamBroken, told, untold
<1>5. CASE Switch(c)
  <2> DEFINE r == [WithStatus(c) EXCEPT !.down = "read", !.back = "read"]
  <2>1. conn[c].at = "upstream" /\ conn[c].status = 0 /\ ~conn[c].answered
    BY <1>1, <1>5 DEF Switch
  <2>2. WithStatus(c) \in Connections
    BY <1>1, <2>1, StatusFields
  <2>3. /\ r \in Connections
        /\ r.sock = WithStatus(c).sock /\ r.request = WithStatus(c).request
        /\ r.status = WithStatus(c).status /\ r.answered = WithStatus(c).answered
        /\ r.parts = WithStatus(c).parts
    BY <2>2 DEF Connections
  <2> HIDE DEF r
  <2>4. CASE Open(c) /\ Move(c, "relay", r)
    BY <1>1, <2>1, <2>3, <2>4, MoveFields, StatusFields DEF Open
  <2>5. CASE Ended(c) /\ Move(c, "release", conn[c])
    BY <1>1, <2>1, <2>5, MoveFields DEF Open, Ended
  <2> QED BY <1>5, <2>4, <2>5 DEF Switch, r
<1>6. CASE RelayJoin(c)
  BY <1>1, <1>6, MoveFields, StatusFields DEF RelayJoin, Open, Ended, MayRaise, Connections
<1> QED BY <1>2, <1>3, <1>4, <1>5, <1>6

\* A step of the client, of the upstream, or of the two threads of a relay.
LEMMA OthersMove ==
    ASSUME ProxyInv, NEW c \in Conns,
           \/ Withdraw(c) \/ EndBody(c) \/ UpstreamActs(c) \/ RelayRead(c) \/ WriteUp(c)
           \/ WriteBack(c) \/ RelayEnds(c)
    PROVE  Moved(c)
<1>1. /\ ProxyTypes /\ conn[c] \in Connections
      /\ Progress(conn[c]) /\ (Kept => Served(conn[c]))
  BY DEF ProxyInv, ProxyTypes
<1> USE DEF Moved, Progress, Untold, Served, Stages
<1>2. CASE Withdraw(c) \/ EndBody(c)
  BY <1>1, <1>2, MoveFields, StatusFields DEF Withdraw, EndBody, Open, Ended, MayRaise, Connections
<1>3. CASE UpstreamActs(c)
  <2>1. PICK u \in {"answering", "failed", "denied", "switched", "stalled", "ended"} :
           Move(c, conn[c].at, [conn[c] EXCEPT !.up = u])
    <3>1. CASE conn[c].at = "upstream"
      BY <1>3, <3>1 DEF UpstreamActs
    <3>2. CASE conn[c].at # "upstream"
      BY <1>3, <3>2 DEF UpstreamActs
    <3> QED BY <3>1, <3>2
  <2> DEFINE r == [conn[c] EXCEPT !.up = u]
  <2>2. /\ r \in Connections
        /\ r.sock = conn[c].sock /\ r.peer = conn[c].peer /\ r.request = conn[c].request
        /\ r.status = conn[c].status /\ r.answered = conn[c].answered
        /\ r.parts = conn[c].parts
        /\ r.broke = conn[c].broke /\ r.down = conn[c].down /\ r.back = conn[c].back
    BY <1>1 DEF Connections
  <2>3. conn[c].at \in Stages /\ Move(c, conn[c].at, r)
    BY <1>1, <2>1 DEF Connections
  <2> HIDE DEF r
  <2> QED BY <1>1, <2>2, <2>3, MoveFields DEF Open
<1>4. CASE RelayRead(c)
  BY <1>1, <1>4, MoveFields, StatusFields DEF RelayRead, Open, Ended, MayRaise, Connections
<1>5. CASE WriteUp(c)
  BY <1>1, <1>5, MoveFields, StatusFields DEF WriteUp, Open, Ended, MayRaise, Connections
<1>6. CASE WriteBack(c)
  BY <1>1, <1>6, MoveFields, StatusFields DEF WriteBack, Open, Ended, MayRaise, Connections
<1>7. CASE RelayEnds(c)
  <2> DEFINE shut == [conn[c] EXCEPT !.sock = "closed", !.up = "shut"]
             down == [shut EXCEPT !.down = "ended"]
             back == [shut EXCEPT !.back = "ended"]
  <2>1. /\ shut \in Connections /\ shut.sock = "closed" /\ shut.down = conn[c].down
        /\ shut.peer = conn[c].peer /\ shut.request = conn[c].request
        /\ shut.status = conn[c].status
        /\ shut.answered = conn[c].answered /\ shut.parts = conn[c].parts
        /\ shut.broke = conn[c].broke
        /\ shut.back = conn[c].back
    BY <1>1 DEF Connections
  <2>2. PICK r \in {down, back} : Move(c, conn[c].at, r)
    BY <1>7 DEF RelayEnds
  <2>3. /\ r \in Connections /\ r.sock = "closed"
        /\ r.peer = shut.peer /\ r.request = shut.request /\ r.status = shut.status
        /\ r.answered = shut.answered /\ r.parts = shut.parts /\ r.broke = shut.broke
    <3> HIDE DEF shut
    <3>1. CASE r = down
      BY <2>1, <3>1 DEF Connections
    <3>2. CASE r = back
      BY <2>1, <3>2 DEF Connections
    <3> QED BY <2>2, <3>1, <3>2
  <2>4. conn[c].at \in {"relay", "release", "done"}
    BY <1>1, <1>7 DEF RelayEnds, DownEnds, BackEnds
  <2> HIDE DEF shut, down, back
  <2> QED BY <1>1, <2>1, <2>2, <2>3, <2>4, MoveFields DEF Open
<1> QED BY <1>2, <1>3, <1>4, <1>5, <1>6, <1>7
-----------------------------------------------------------------------------
\* A client is accepted; nothing of it is known to anyone yet.
LEMMA ConnectKeeps ==
    ASSUME ProxyInv, NEW c \in Conns, Connect(c)
    PROVE  ProxyInv'
<1>1. PICK r \in Services[service].requests : Accepted(c, r)
  BY DEF Connect
<1>2. /\ ProxyTypes /\ UNCHANGED <<service, server, toSever>>
      /\ server \in {"serving", "stopping"}
      /\ tracked' = IF Severs THEN tracked \cup {c} ELSE tracked
  BY DEF Connect, Accepts, ProxyInv
<1> DEFINE new == [NoConn EXCEPT
                      !.at = IF Sidecar = "kubectl" THEN "handshake" ELSE "head",
                      !.sock = "open", !.peer = "there", !.request = r]
<1>3. r \in Requests /\ <<>> \in Requests
  BY <1>2 DEF Requests, ProxyTypes
<1>4. NoConn \in Connections
  BY <1>3, ProxyAssumption DEF NoConn, Connections, Stages
<1>5. /\ new \in Connections /\ new.at \in {"handshake", "head"} /\ new.sock = "open"
      /\ new.request = r /\ new.status = 0 /\ ~new.answered
      /\ new.down = "ended" /\ new.back = "ended"
  <2>1. /\ NoConn.status = 0 /\ ~NoConn.answered /\ NoConn.down = "ended" /\ NoConn.back = "ended"
    BY DEF NoConn
  <2> QED BY <1>3, <1>4, <2>1 DEF Connections, Stages
<1>6. conn' = [conn EXCEPT ![c] = new]
  BY <1>1 DEF Accepted
<1> HIDE DEF new
<1>7. ProxyTypes'
  BY <1>2, <1>5, <1>6 DEF ProxyTypes
<1>8. /\ conn'[c] = new
      /\ \A d \in Conns \ {c} : conn'[d] = conn[d]
  BY <1>2, <1>6 DEF ProxyTypes
<1>9. ASSUME NEW d \in Conns
      PROVE  Progress(conn[d])' /\ (Kept => Served(conn[d]))' /\ Severed(d)'
  <2>1. Severed(d)'
    BY <1>2, <1>8 DEF Severed, ProxyInv, Open, Severs, Sidecar
  <2>2. CASE d = c
    BY <1>2, <1>5, <1>8, <2>1, <2>2 DEF Progress, Untold, Served
  <2>3. CASE d # c
    <3>1. /\ conn'[d] = conn[d] /\ Progress(conn[d]) /\ (Kept => Served(conn[d]))
          /\ UNCHANGED <<service, server>>
      BY <1>2, <1>8, <2>3 DEF ProxyInv
    <3>2. Progress(conn[d])'
      BY <3>1 DEF Progress, Untold
    <3> QED BY <2>1, <3>1, <3>2 DEF Kept, Severs, Sidecar, Served, Untold, Verdict, ApiVerdict,
                                    KubectlVerdict, OciVerdict, S3Verdict, Profiles
  <2> QED BY <2>2, <2>3
<1> QED BY <1>2, <1>7, <1>9 DEF ProxyInv

\* A step that leaves the instance as it is and what was sent to each client.
LEMMA ServerSideKeeps ==
    ASSUME ProxyInv, service' = service, ProxyTypes', (server = "severing" => Severs)',
           \A c \in Conns :
              /\ Severed(c)'
              /\ Progress(conn[c])'
              /\ Kept' => Served(conn'[c])
    PROVE  ProxyInv'
<1>1. ASSUME NEW c \in Conns
      PROVE  (Kept => Served(conn[c]))'
  <2>1. service' = service /\ (Kept' => Served(conn'[c]))
    OBVIOUS
  <2> QED BY <2>1 DEF Served, Untold, Sidecar, Verdict, ApiVerdict, KubectlVerdict, OciVerdict,
                      S3Verdict, Profiles
<1> QED BY <1>1 DEF ProxyInv

\* The handler closes and forgets its client's socket.
LEMMA ReleaseKeeps ==
    ASSUME ProxyInv, NEW c \in Conns, Release(c)
    PROVE  ProxyInv'
<1> DEFINE r == [conn[c] EXCEPT !.at = "done", !.sock = "closed", !.up = "none"]
<1>1. /\ ProxyTypes /\ UNCHANGED <<service, server, toSever>> /\ conn[c].at = "release"
      /\ tracked' = tracked \ {c} /\ conn[c] \in Connections
      /\ conn' = [conn EXCEPT ![c] = r]
  BY DEF Release, ProxyInv, ProxyTypes
<1>2. /\ r \in Connections /\ r.at = "done" /\ r.sock = "closed" /\ r.peer = conn[c].peer
      /\ r.request = conn[c].request /\ r.status = conn[c].status
      /\ r.answered = conn[c].answered /\ r.parts = conn[c].parts /\ r.broke = conn[c].broke
  BY <1>1 DEF Connections, Stages
<1> HIDE DEF r
<1>3. conn'[c] = r /\ \A d \in Conns \ {c} : conn'[d] = conn[d]
  BY <1>1 DEF ProxyTypes
<1>4. ProxyTypes'
  BY <1>1, <1>2 DEF ProxyTypes
<1>5. UNCHANGED <<Kept, Sidecar, Severs>>
  BY <1>1 DEF Kept, Severs, Sidecar
<1>6. ASSUME NEW d \in Conns
      PROVE  Severed(d)' /\ Progress(conn[d])' /\ (Kept => Served(conn'[d]))
  <2>1. Severed(d)'
    BY <1>1, <1>2, <1>3, <1>5 DEF Severed, ProxyInv, Open
  <2>2. CASE d = c
    <3>1. Progress(conn[c]) /\ (Kept => Served(conn[c]))
      BY DEF ProxyInv
    <3> QED BY <1>1, <1>2, <1>3, <2>1, <2>2, <3>1 DEF Progress, Untold, Served
  <2>3. CASE d # c
    <3>1. /\ conn'[d] = conn[d] /\ Progress(conn[d]) /\ (Kept => Served(conn[d]))
      BY <1>3, <2>3 DEF ProxyInv
    <3> QED BY <1>1, <2>1, <3>1 DEF Progress, Untold
  <2> QED BY <2>2, <2>3
<1>7. (server = "severing" => Severs)'
  BY <1>1, <1>5 DEF ProxyInv
<1> QED BY <1>1, <1>4, <1>5, <1>6, <1>7, ServerSideKeeps

\* The main thread's steps.
LEMMA ClosingKeeps ==
    ASSUME ProxyInv, Shutdown \/ StopAccepting \/ ListActive \/ CloseServer
    PROVE  ProxyInv'
<1>1. /\ UNCHANGED <<service, conn, tracked>> /\ ProxyTypes /\ UNCHANGED <<Sidecar, Severs>>
      /\ \/ server = "serving" /\ server' = "stopping" /\ toSever' = toSever
         \/ server = "stopping" /\ server' = "stopped" /\ toSever' = toSever
         \/ server = "stopped" /\ server' = "severing" /\ toSever' = tracked /\ Severs
         \/ server = "stopped" /\ ~Severs /\ server' = "closed" /\ toSever' = toSever
         \/ server = "severing" /\ toSever = {} /\ server' = "closed" /\ toSever' = toSever
  BY DEF Shutdown, StopAccepting, ListActive, CloseServer, Sidecar, Severs, ProxyInv
<1>2. ProxyTypes' /\ (Kept' => Kept)
  BY <1>1 DEF ProxyTypes, Kept
<1>3. ASSUME NEW c \in Conns
      PROVE  Severed(c)' /\ Progress(conn[c])' /\ (Kept' => Served(conn'[c]))
  <2>1. /\ Severed(c) /\ Progress(conn[c]) /\ (Kept => Served(conn[c]))
    BY DEF ProxyInv
  <2>2. Severed(c)'
    BY <1>1, <2>1 DEF Severed, Open
  <2> QED BY <1>1, <1>2, <2>1, <2>2 DEF Progress, Untold
<1>4. (server = "severing" => Severs)'
  BY <1>1
<1> QED BY <1>1, <1>2, <1>3, <1>4, ServerSideKeeps

\* close_active_requests closes one of the sockets.
LEMMA SeverKeeps ==
    ASSUME ProxyInv, NEW c \in Conns, Sever(c)
    PROVE  ProxyInv'
<1> DEFINE r == [conn[c] EXCEPT !.sock = "closed"]
<1>1. /\ ProxyTypes /\ UNCHANGED <<service, server, tracked>> /\ server = "severing"
      /\ toSever' = toSever \ {c} /\ conn[c] \in Connections
      /\ conn' = [conn EXCEPT ![c] = r]
  BY DEF Sever, ProxyInv, ProxyTypes
<1>2. /\ r \in Connections /\ r.at = conn[c].at /\ r.sock = "closed"
      /\ r.request = conn[c].request /\ r.status = conn[c].status
      /\ r.answered = conn[c].answered /\ r.down = conn[c].down /\ r.back = conn[c].back
  BY <1>1 DEF Connections
<1> HIDE DEF r
<1>3. conn'[c] = r /\ \A d \in Conns \ {c} : conn'[d] = conn[d]
  BY <1>1 DEF ProxyTypes
<1>4. ProxyTypes'
  BY <1>1, <1>2 DEF ProxyTypes
<1>5. UNCHANGED <<Kept, Sidecar, Severs>>
  BY <1>1 DEF Kept, Severs, Sidecar
<1>6. ASSUME NEW d \in Conns
      PROVE  Severed(d)' /\ Progress(conn[d])'
  <2>1. Severed(d) /\ Progress(conn[d])
    BY DEF ProxyInv
  <2> QED BY <1>1, <1>2, <1>3, <1>5, <2>1 DEF Severed, Open, Progress, Untold
<1>7. ~Kept'
  BY <1>1, <1>5 DEF ProxyInv, Kept
<1>8. (server = "severing" => Severs)'
  BY <1>1, <1>5 DEF ProxyInv
<1> QED BY <1>1, <1>4, <1>6, <1>7, <1>8, ServerSideKeeps

LEMMA ProxyStep == ProxyInv /\ [ProxyNext]_proxyVars => ProxyInv'
<1> SUFFICES ASSUME ProxyInv, [ProxyNext]_proxyVars
             PROVE  ProxyInv'
  OBVIOUS
<1>1. CASE UNCHANGED proxyVars
  <2>1. ProxyTypes' /\ UNCHANGED <<service, server, tracked, toSever, conn>>
    BY <1>1 DEF proxyVars, ProxyInv, ProxyTypes
  <2>2. ASSUME NEW c \in Conns
        PROVE  Severed(c)' /\ Progress(conn[c])' /\ (Kept' => Kept) /\ (Kept' => Served(conn'[c]))
    BY <2>1 DEF ProxyInv, Severed, Open, Severs, Sidecar, Kept, Progress, Untold
  <2>3. (server = "severing" => Severs)'
    BY <2>1 DEF ProxyInv, Severs, Sidecar
  <2> QED BY <2>1, <2>2, <2>3, ServerSideKeeps
<1>2. ASSUME NEW c \in Conns, HandlerStep(c)
      PROVE  ProxyInv'
  BY <1>2, AskingMoves, AnsweringMoves, MovedKeeps, ReleaseKeeps DEF HandlerStep
<1>3. ASSUME NEW c \in Conns,
             \/ Withdraw(c) \/ EndBody(c) \/ UpstreamActs(c) \/ RelayRead(c) \/ WriteUp(c)
             \/ WriteBack(c) \/ RelayEnds(c)
      PROVE  ProxyInv'
  BY <1>3, OthersMove, MovedKeeps
<1> QED BY <1>1, <1>2, <1>3, ConnectKeeps, ClosingKeeps, SeverKeeps DEF ProxyNext, CloseStep

LEMMA ProxyInitially == ProxyInit => ProxyInv
<1> SUFFICES ASSUME ProxyInit
             PROVE  ProxyInv
  OBVIOUS
<1>1. NoConn \in Connections
  BY ProxyAssumption DEF NoConn, Connections, Stages, Requests
<1>2. ProxyTypes
  BY <1>1 DEF ProxyInit, ProxyTypes
<1>3. \A c \in Conns : conn[c] = NoConn
  BY DEF ProxyInit
<1>4. /\ NoConn.at = "none" /\ NoConn.sock = "closed" /\ NoConn.status = 0 /\ ~NoConn.answered
      /\ NoConn.down = "ended" /\ NoConn.back = "ended"
  BY DEF NoConn
<1>5. server = "serving"
  BY DEF ProxyInit
<1> QED BY <1>2, <1>3, <1>4, <1>5 DEF ProxyInv, Progress, Untold, Served, Severed, Open

LEMMA ProxyInvariance == ProxySpec => []ProxyInv
BY ProxyInitially, ProxyStep, PTL DEF ProxySpec
-----------------------------------------------------------------------------
\* The variables of a proxy keep their types.
THEOREM ProxyTypeCorrect == ProxySpec => []ProxyTypeOK
<1>1. ProxyInv => ProxyTypeOK
  BY DEF ProxyInv, ProxyTypes, Progress, ProxyTypeOK, Connections, Stages
<1> QED BY <1>1, ProxyInvariance, PTL

\* A client that stays is told what became of its request, once, and is sent the whole
\* of an answer unless the upstream broke off.
THEOREM ClientIsServed == ProxySpec => []ClientServed
<1>1. ProxyInv => ClientServed
  BY DEF ProxyInv, Kept, Served, ClientServed, OneTry
<1> QED BY <1>1, ProxyInvariance, PTL

\* Once a severing server (OCI, S3) is closed, nothing more is sent to its clients.
THEOREM SilenceAfterClose == ProxySpec => SilentAfterClose
<1> DEFINE Same(c) == conn'[c].status = conn[c].status /\ conn'[c].parts = conn[c].parts
<1>1. ASSUME ProxyInv, [ProxyNext]_proxyVars, server = "closed", Severs
      PROVE  \A c \in Conns : Same(c)
  <2>1. \A c \in Conns : ~Open(c) /\ conn[c] \in Connections
    BY <1>1 DEF ProxyInv, ProxyTypes, Severed
  <2>2. conn \in [Conns -> Connections]
    BY <1>1 DEF ProxyInv, ProxyTypes
  <2>3. ASSUME NEW c \in Conns, Moved(c)
        PROVE  \A d \in Conns : Same(d)
    BY <2>1, <2>2, <2>3 DEF Moved
  <2>4. ASSUME NEW c \in Conns, Release(c)
        PROVE  \A d \in Conns : Same(d)
    BY <2>1, <2>2, <2>4 DEF Release, Connections
  <2>5. \A c \in Conns : ~Connect(c) /\ ~Sever(c)
    BY <1>1 DEF Connect, Accepts, Sever
  <2>6. CASE UNCHANGED conn
    BY <2>6
  <2> QED BY <1>1, <2>3, <2>4, <2>5, <2>6, AskingMoves, AnsweringMoves, OthersMove
             DEF ProxyNext, HandlerStep, CloseStep, Shutdown, StopAccepting, ListActive,
                 CloseServer, proxyVars
<1>2. ProxyInv /\ [ProxyNext]_proxyVars =>
        [server = "closed" /\ Severs =>
           \A c \in Conns : /\ conn'[c].status = conn[c].status
                            /\ conn'[c].parts = conn[c].parts]_proxyVars
  BY <1>1
<1> QED BY <1>2, ProxyInvariance, PTL DEF ProxySpec, SilentAfterClose
-----------------------------------------------------------------------------
(* What the proxies forward.                                               *)

\* A request that a proxy admits is made with the credentials of its owner, and what the
\* upstream does on it is covered by the rules of this profile, if they are asked.
Covered(r) ==
    /\ r.owner \in DOMAIN Profiles
    /\ Profiles[r.owner].rules # <<>> /\ ~TakenForDiscovery(r) =>
          \A effect \in r.does : \E rule \in Profiles[r.owner].rules[1] : Covers(rule, effect)

LEMMA AdmittedIsCovered ==
    ASSUME Truthful, service \in DOMAIN Services,
           NEW r \in Services[service].requests, Verdict(r) = "admitted"
    PROVE  Covered(r)
<1>1. Sidecar \in Sidecars
  BY ProxyAssumption DEF Sidecar
<1>2. CASE Sidecar = "api"
  <2>1. ApiProfile(Profiles, r.auth) # {} /\ ApiProfile(Profiles, r.auth) \subseteq {r.owner}
        /\ r.does = {}
    BY <1>2 DEF Truthful, Sidecar, Profiles, Verdict, ApiVerdict
  <2> QED BY <2>1 DEF Covered, ApiProfile
<1>3. CASE Sidecar = "kubectl"
  <2>1. PICK k \in KubectlProfile(Profiles, r.auth) : KubectlAllows(Profiles[k].rules, r.target)
    BY <1>3 DEF Verdict, KubectlVerdict
  <2>2. /\ KubectlProfile(Profiles, r.auth) \subseteq {r.owner}
        /\ Taken("kubectl", r.target) # {} => r.does \subseteq Taken("kubectl", r.target)
    BY <1>3 DEF Truthful, Sidecar, Profiles
  <2>3. k = r.owner /\ r.owner \in DOMAIN Profiles
    BY <2>1, <2>2 DEF KubectlProfile
  <2> DEFINE url == ParseK8sUrl(r.target.path)
             verb == Verb(r.target.method, url.named, url.resource # "" /\ r.target.watch)
             effect == [verb |-> verb, resource |-> url.resource, namespace |-> url.namespace]
  <2>4. /\ url.subresource \notin BlockedSubresources
        /\ \/ url.resource = ""
           \/ \E rule \in Profiles[r.owner].rules[1] :
                 RbacMatch(rule, verb, url.resource, url.namespace)
    BY <2>1, <2>3 DEF KubectlAllows
  <2>5. url.resource # "" => r.does \subseteq {effect}
    BY <2>2, <2>4 DEF Taken
  <2>6. effect.verb = verb /\ effect.resource = url.resource /\ effect.namespace = url.namespace
    OBVIOUS
  <2>7. TakenForDiscovery(r) <=> url.resource = ""
    BY <1>3 DEF TakenForDiscovery
  <2> HIDE DEF url, verb, effect
  <2> QED BY <1>3, <2>3, <2>4, <2>5, <2>6, <2>7 DEF Covered, Covers
<1>4. CASE Sidecar = "oci"
  <2>1. PICK k \in OciProfile(Profiles, r.auth) : OciAllows(Profiles[k].rules, r.target)
    BY <1>4 DEF Verdict, OciVerdict
  <2>2. /\ OciProfile(Profiles, r.auth) \subseteq {r.owner}
        /\ OciTargets(r.target) # {} => r.does \subseteq OciTargets(r.target)
    BY <1>4 DEF Truthful, Sidecar, Profiles, Taken
  <2>3. k = r.owner /\ r.owner \in DOMAIN Profiles
    BY <2>1, <2>2 DEF OciProfile
  <2> QED BY <1>4, <2>1, <2>2, <2>3 DEF Covered, Covers, OciAllows
<1>5. CASE Sidecar = "s3"
  <2>1. PICK k \in S3Profile(Profiles, r.auth) : S3Allows(Profiles[k].rules, r.target)
    BY <1>5 DEF Verdict, S3Verdict
  <2>2. /\ S3Profile(Profiles, r.auth) \subseteq {r.owner}
        /\ S3Targets(r.target) # {} => r.does \subseteq S3Targets(r.target)
    BY <1>5 DEF Truthful, Sidecar, Profiles, Taken
  <2>3. k = r.owner /\ r.owner \in DOMAIN Profiles
    BY <2>1, <2>2 DEF S3Profile
  <2> QED BY <1>5, <2>1, <2>2, <2>3 DEF Covered, Covers, S3Allows
<1> QED BY <1>1, <1>2, <1>3, <1>4, <1>5 DEF Sidecars

\* A handler past the policy, and a request that has reached the upstream, were admitted.
Past == {"body", "forward", "upstream", "stream", "relay"}
Admitted(r) ==
    r.at \in Past \/ r.reached => r.at # "none" /\ Verdict(r.request) = "admitted"

\* What a step of one connection does to that.
LEMMA AdmittedMoves ==
    ASSUME ProxyTypes, NEW c \in Conns, Admitted(conn[c]),
           HandlerStep(c) \/ Withdraw(c) \/ EndBody(c) \/ UpstreamActs(c) \/ RelayRead(c)
               \/ WriteUp(c) \/ WriteBack(c) \/ RelayEnds(c)
    PROVE  /\ service' = service /\ DOMAIN conn' = Conns
           /\ \A d \in Conns \ {c} : conn'[d] = conn[d]
           /\ conn'[c].request = conn[c].request
           /\ conn'[c].at \in Past \/ conn'[c].reached =>
                 conn'[c].at # "none" /\ Verdict(conn[c].request) = "admitted"
<1>1. conn[c] \in Connections /\ conn \in [Conns -> Connections]
  BY DEF ProxyTypes
<1> DEFINE Goal == /\ service' = service /\ DOMAIN conn' = Conns
                   /\ \A d \in Conns \ {c} : conn'[d] = conn[d]
                   /\ conn'[c].request = conn[c].request
                   /\ conn'[c].at \in Past \/ conn'[c].reached =>
                         conn'[c].at # "none" /\ Verdict(conn[c].request) = "admitted"
<1> SUFFICES Goal
  OBVIOUS
<1>2. ASSUME NEW stage, NEW changed, Move(c, stage, changed),
             DOMAIN changed = DOMAIN conn[c], changed.request = conn[c].request,
             stage \in Past \/ changed.reached =>
                 stage # "none" /\ Verdict(conn[c].request) = "admitted"
      PROVE  Goal
  <2>1. /\ conn' = [conn EXCEPT ![c] = [changed EXCEPT !.at = stage]] /\ service' = service
    BY <1>2 DEF Move
  <2>2. conn'[c] = [changed EXCEPT !.at = stage]
    BY <1>1, <2>1
  <2>3. "at" \in DOMAIN changed
    BY <1>1, <1>2 DEF Connections
  <2>4. /\ conn'[c].at = stage /\ conn'[c].request = changed.request
        /\ conn'[c].reached = changed.reached
    BY <2>2, <2>3
  <2> QED BY <1>1, <1>2, <2>1, <2>4
<1>3. /\ DOMAIN WithStatus(c) = DOMAIN conn[c] /\ WithStatus(c).request = conn[c].request
      /\ WithStatus(c).reached = conn[c].reached
  BY <1>1 DEF WithStatus, Connections
<1> HIDE DEF Goal
<1>4. CASE Handshake(c) \/ ReadBody(c) \/ EndBody(c) \/ NoAnswer(c) \/ RelayJoin(c)
  BY <1>2, <1>3, <1>4 DEF Handshake, ReadBody, EndBody, NoAnswer, RelayJoin, Admitted, Past
<1>5. CASE ReadHead(c)
  BY <1>2, <1>3, <1>5 DEF ReadHead, Admitted, Past
<1>6. CASE Forward(c)
  <2> DEFINE r == [conn[c] EXCEPT !.up = "asked", !.reached = TRUE]
  <2>1. DOMAIN r = DOMAIN conn[c] /\ r.request = conn[c].request
    BY <1>1 DEF Connections
  <2>2. /\ Verdict(conn[c].request) = "admitted"
        /\ Move(c, "upstream", r) \/ Move(c, "release", WithStatus(c))
    BY <1>6 DEF Forward, Admitted, Past
  <2> HIDE DEF r
  <2> QED BY <1>2, <1>3, <2>1, <2>2
<1>7. CASE RefreshAndResend(c) \/ Respond(c)
  BY <1>1, <1>2, <1>3, <1>7 DEF RefreshAndResend, Respond, Admitted, Past, Connections
<1>8. CASE Stream(c)
  BY <1>1, <1>2, <1>3, <1>8 DEF Stream, Admitted, Past, Connections
<1>9. CASE StreamBroken(c) \/ Switch(c)
  BY <1>1, <1>2, <1>3, <1>9 DEF StreamBroken, Switch, Admitted, Past, Connections
<1>10. CASE Release(c)
  BY <1>1, <1>10 DEF Goal, Release, Admitted, Past, Connections
<1>11. CASE Withdraw(c) \/ UpstreamActs(c)
  <2>1. PICK p, u : \/ Move(c, conn[c].at, [conn[c] EXCEPT !.peer = p])
                    \/ Move(c, conn[c].at, [conn[c] EXCEPT !.up = u])
    <3>1. CASE Withdraw(c)
      BY <3>1 DEF Withdraw
    <3>2. CASE UpstreamActs(c)
      <4>1. \E stage, u : conn[c].at = stage /\ Move(c, stage, [conn[c] EXCEPT !.up = u])
        BY <3>2 DEF UpstreamActs
      <4> QED BY <4>1
    <3> QED BY <1>11, <3>1, <3>2
  <2> DEFINE r == [conn[c] EXCEPT !.peer = p]
             t == [conn[c] EXCEPT !.up = u]
  <2>2. /\ DOMAIN r = DOMAIN conn[c] /\ r.request = conn[c].request /\ r.reached = conn[c].reached
        /\ DOMAIN t = DOMAIN conn[c] /\ t.request = conn[c].request /\ t.reached = conn[c].reached
    BY <1>1 DEF Connections
  <2>3. Move(c, conn[c].at, r) \/ Move(c, conn[c].at, t)
    BY <2>1
  <2> HIDE DEF r, t
  <2> QED BY <1>2, <2>2, <2>3 DEF Admitted
<1>12. CASE RelayRead(c) \/ WriteUp(c) \/ WriteBack(c)
  BY <1>1, <1>2, <1>12 DEF RelayRead, WriteUp, WriteBack, Admitted, Past, Connections
<1>13. CASE RelayEnds(c)
  <2> DEFINE shut == [conn[c] EXCEPT !.sock = "closed", !.up = "shut"]
             down == [shut EXCEPT !.down = "ended"]
             back == [shut EXCEPT !.back = "ended"]
  <2>1. PICK r \in {down, back} : Move(c, conn[c].at, r)
    BY <1>13 DEF RelayEnds
  <2>2. /\ DOMAIN shut = DOMAIN conn[c] /\ shut.request = conn[c].request
        /\ shut.reached = conn[c].reached /\ DOMAIN conn[c] = DOMAIN NoConn
    BY <1>1 DEF Connections, NoConn
  <2>3. DOMAIN r = DOMAIN shut /\ r.request = shut.request /\ r.reached = shut.reached
    <3> HIDE DEF shut
    <3> QED BY <2>1, <2>2 DEF NoConn
  <2> HIDE DEF shut, down, back
  <2> QED BY <1>2, <2>1, <2>2, <2>3 DEF Admitted
<1> QED BY <1>4, <1>5, <1>6, <1>7, <1>8, <1>9, <1>10, <1>11, <1>12, <1>13 DEF HandlerStep, Goal

AdmittedInv == ProxyInv /\ \A c \in Conns : Admitted(conn[c])

LEMMA AdmittedStep == AdmittedInv /\ [ProxyNext]_proxyVars => AdmittedInv'
<1> SUFFICES ASSUME AdmittedInv, [ProxyNext]_proxyVars
             PROVE  AdmittedInv'
  OBVIOUS
<1>1. ProxyInv' /\ ProxyTypes /\ conn \in [Conns -> Connections]
  BY ProxyStep DEF AdmittedInv, ProxyInv, ProxyTypes
<1>2. ASSUME service' = service
      PROVE  \A r : Verdict(r)' = Verdict(r)
  BY <1>2 DEF Verdict, ApiVerdict, KubectlVerdict, OciVerdict, S3Verdict, Sidecar, Profiles
<1>3. ASSUME NEW c \in Conns,
             HandlerStep(c) \/ Withdraw(c) \/ EndBody(c) \/ UpstreamActs(c) \/ RelayRead(c)
                 \/ WriteUp(c) \/ WriteBack(c) \/ RelayEnds(c)
      PROVE  AdmittedInv'
  BY <1>1, <1>2, <1>3, AdmittedMoves DEF AdmittedInv, Admitted
<1>4. ASSUME NEW c \in Conns, Connect(c)
      PROVE  AdmittedInv'
  BY <1>1, <1>2, <1>4 DEF AdmittedInv, Admitted, Connect, Accepted, NoConn, Past
<1>5. ASSUME NEW c \in Conns, Sever(c)
      PROVE  AdmittedInv'
  BY <1>1, <1>2, <1>5 DEF AdmittedInv, Admitted, Sever, Connections
<1>6. CASE Shutdown \/ StopAccepting \/ ListActive \/ CloseServer \/ UNCHANGED proxyVars
  BY <1>1, <1>2, <1>6 DEF AdmittedInv, Admitted, Shutdown, StopAccepting, ListActive, CloseServer,
                          proxyVars
<1> QED BY <1>3, <1>4, <1>5, <1>6 DEF ProxyNext, CloseStep

\* Whatever clients, upstreams and the closing of the servers do, a proxy forwards only
\* requests made with a profile's own credentials, and but for what the RBAC proxy takes
\* for discovery and does not check, only what the rules of this profile cover, if the
\* upstream takes the request as the policy does (the four handlers and their policies).
THEOREM ForwardedOnlyIfCovered ==
    ASSUME Truthful
    PROVE  ProxySpec => []ForwardedIsCovered
<1>1. ProxyInit => AdmittedInv
  BY ProxyInitially DEF ProxyInit, AdmittedInv, Admitted, NoConn, Past
<1>2. AdmittedInv => ForwardedIsCovered
  <2> SUFFICES ASSUME AdmittedInv, NEW c \in Conns, conn[c].reached
               PROVE  Covered(conn[c].request)
    BY DEF ForwardedIsCovered, Covered
  <2>1. Verdict(conn[c].request) = "admitted" /\ service \in DOMAIN Services
    BY DEF AdmittedInv, Admitted, ProxyInv, ProxyTypes
  <2>2. conn[c].request \in Services[service].requests
    BY DEF AdmittedInv, Admitted, ProxyInv, Progress
  <2> QED BY <2>1, <2>2, AdmittedIsCovered
<1> QED BY <1>1, <1>2, AdmittedStep, PTL DEF ProxySpec
-----------------------------------------------------------------------------
(* Both parts together.                                                    *)

\* A behaviour of the traffic is one of the terminal and one of the proxies.
LEMMA TrafficIsBoth == TrafficFairSpec => PtySpec /\ ProxySpec
<1>1. TrafficInit => PtyInit /\ ProxyInit
  BY DEF TrafficInit
<1>2. [TrafficNext]_trafficVars => [PtyNext]_ptyVars /\ [ProxyNext]_proxyVars
  BY DEF TrafficNext, trafficVars
<1> QED BY <1>1, <1>2, PTL DEF TrafficFairSpec, PtySpec, ProxySpec

LEMMA PtyInvariance == PtySpec => []PtyInv
BY PtyInitially, PtyStep, PTL DEF PtySpec

\* The variables of the terminal and of the proxies keep their types, the saved images
\* and what is in the hands of _write_all included.
THEOREM TrafficTyped == TrafficFairSpec => []TypeOK
<1> DEFINE PartOK == part \in {"terminal", "sidecar", "login"}
<1>1. TrafficInit => PartOK
  BY DEF TrafficInit
<1>2. PartOK /\ [TrafficNext]_trafficVars => PartOK'
  BY DEF TrafficNext, trafficVars
<1>3. PtyInv /\ ProxyTypeOK /\ PartOK => TypeOK
  BY PtyTypes DEF TypeOK
<1> HIDE DEF PartOK
<1>4. TrafficFairSpec => []PartOK
  BY <1>1, <1>2, PTL DEF TrafficFairSpec
<1> QED BY <1>3, <1>4, TrafficIsBoth, PtyInvariance, ProxyTypeCorrect, PTL
=============================================================================
