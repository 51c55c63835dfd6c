------------------------------ MODULE PtyPump ------------------------------
(***************************************************************************)
(* The agent's terminal: run_with_pty puts hatchery between the user's     *)
(* terminal and the PTY of the container runtime's client.  One thread     *)
(* pumps both directions; what the user types passes the paste             *)
(* interceptor, which puts the path of a saved clipboard image in place of *)
(* a paste key.  The user, the child and signals take steps of their own   *)
(* between any two of the pump's.                                          *)
(***************************************************************************)
EXTENDS Naturals, Sequences, SequencesExt

CONSTANTS
    Plain,        \* bytes without a meaning to the interceptor
    CtrlV,        \* the one-byte paste key
    Esc, CsiV,    \* the two parts of the paste key of the kitty protocol
    Images,       \* what the host's clipboard may hold
    NoImage,      \* it holds no image, or the tool failed or timed out
    Formats,      \* file extensions
    Format,       \* Format[i] is the extension of image i
    Tools,        \* the clipboard tools, in the order they are asked
    Chunk,        \* how many bytes one os.read returns at most
    Limits        \* the bounds of each scenario

Bytes == Plain \cup {CtrlV, Esc, CsiV}
Triggers == {<<CtrlV>>, <<Esc, CsiV>>}

ASSUME PtyAssumption ==
    /\ NoImage \notin Images
    /\ Format \in [Images -> Formats]
    /\ Chunk \in Nat \ {0}
    /\ Limits \subseteq [typed : Nat, printed : Nat, resized : Nat, seconds : Nat,
                         capacity : Nat \ {0},  \* bytes the PTY buffers each way
                         unsaved : BOOLEAN,     \* an image may not be saved
                         closes : SUBSET {"stdin", "stdout"}] \* ends that may close
    \* no byte is a reference
    /\ \A b \in Bytes : b \notin [path : [stamp : Nat, counter : Nat, extension : Formats],
                                 image : Images, key : Triggers]

VARIABLES
    limit,     \* the scenario: a constant of each behaviour
    phase,     \* where run_with_pty is
    ready,     \* the descriptors the last select returned
    pending,   \* what _write_all has still to write
    masterOpen,
    interrupted, \* a KeyboardInterrupt has been handled
    child,     \* "unborn", "running", "closed" (its end of the PTY), "exited"
    typed,     \* all the user has typed; the first `read` bytes of it are read
    read,
    stdinOpen,
    toChild,   \* all that was written to the PTY; the child has taken `taken`
    taken,
    printed,   \* the child has printed the bytes 1 .. printed
    outbuf,    \* those of them in the PTY
    shown,     \* those that reached the terminal
    viewer,    \* stdout has a reader
    tty,       \* the user's terminal: "cooked", "raw", or "given up": still raw, and not
               \* restored any more
    winch,     \* SIGWINCH is handled
    sigwinch,  \* a SIGWINCH is pending
    ttySize, ptySize,
    imageFiles, \* the saved images, by path
    clock,     \* the second of the host's clock
    missed     \* observation: the last resize came before the handler

pumpVars == <<limit, phase, ready, pending, masterOpen, interrupted>>
inVars == <<typed, read, stdinOpen, toChild, taken, imageFiles>>
outVars == <<printed, outbuf, shown, viewer>>
sizeVars == <<winch, sigwinch, ttySize, ptySize, missed>>
ptyVars == <<pumpVars, child, inVars, outVars, tty, sizeVars, clock>>

Paths == [stamp : 0..limit.seconds, counter : Nat, extension : Formats]

\* What is typed into the child in place of a paste key: the path, with the
\* image and the key it stands for (the last two are observations).
References == [path : Paths, image : Images, key : Triggers]

Setup == {"start", "sized", "raw", "handled"}
Pumping == {"check", "select", "stdin", "writeMaster", "master", "writeStdout"}
Over == {"returned", "raised", "gone"}
-----------------------------------------------------------------------------
(* The paste interceptor.                                                  *)

\* The first tool that returns something decides.
HostImage(answers) ==
    LET hits == {t \in DOMAIN answers : answers[t] # NoImage}
    IN  IF hits = {} THEN NoImage
        ELSE answers[CHOOSE t \in hits : \A u \in hits : t <= u]

\* MUTANT: no counter for pastes of the same second.
PathOfSecond(saved, image) == [stamp |-> clock, counter |-> 0, extension |-> Format[image]]

\* The name of an image saved now: the first suffix no file has yet.
FreePath(saved, image) ==
    LET At(n) == [stamp |-> clock, counter |-> n, extension |-> Format[image]]
    IN  At(CHOOSE n \in 0..limit.typed :
               /\ At(n) \notin DOMAIN saved
               /\ \A m \in 0..(n - 1) : At(m) \in DOMAIN saved)

\* The paste keys that begin at position i of a chunk (at most one).
KeysAt(chunk, i) ==
    {k \in Triggers : i + Len(k) - 1 <= Len(chunk)
                          /\ SubSeq(chunk, i, i + Len(k) - 1) = k}

\* What the host answers to one probe, and whether the image can be saved.
Answers == [clipboard : [1..Len(Tools) -> Images \cup {NoImage}],
            saved : IF limit.unsaved THEN BOOLEAN ELSE {TRUE}]

\* A paste key: replaced by a reference to the image saved for it, kept when there
\* is no image, and dropped when the image cannot be saved.
Pasted(key, answer, done) ==
    LET image == HostImage(answer.clipboard)
        path == FreePath(done.files, image)
        rest == [done EXCEPT !.inKey = Len(key) - 1]
    IN  IF image = NoImage THEN [rest EXCEPT !.out = @ \o key]
        ELSE IF ~answer.saved THEN rest
        ELSE [rest EXCEPT !.out = Append(@, [path |-> path, image |-> image, key |-> key]),
                          !.files = [p \in DOMAIN @ \cup {path} |->
                                       IF p = path THEN image ELSE @[p]]]

\* The scan of a chunk at byte i, after what is done with the bytes before.
Scanned(chunk, answer, i, done) ==
    LET keys == KeysAt(chunk, i)
    IN  IF done.inKey > 0 THEN [done EXCEPT !.inKey = @ - 1]
        ELSE IF keys = {} THEN [done EXCEPT !.out = Append(@, chunk[i])]
        ELSE Pasted(CHOOSE k \in keys : TRUE, answer[i], done)

\* _intercept_paste_keystroke: the chunk with every paste key taken care of.
Intercepted(chunk, answer) ==
    LET scan[i \in 0..Len(chunk)] ==
          IF i = 0 THEN [out |-> <<>>, files |-> imageFiles, inKey |-> 0]
          ELSE Scanned(chunk, answer, i, scan[i - 1])
    IN  scan[Len(chunk)]

\* The chain's output fold: its one interceptor leaves output alone.
OnStdout(chunk) == chunk
-----------------------------------------------------------------------------
PtyInit ==
    /\ limit \in Limits
    /\ phase = "start" /\ ready = {} /\ pending = <<>>
    /\ masterOpen = TRUE /\ interrupted = FALSE
    /\ child = "unborn"
    /\ typed = <<>> /\ read = 0 /\ stdinOpen = TRUE
    /\ toChild = <<>> /\ taken = 0 /\ imageFiles = <<>>
    /\ printed = 0 /\ outbuf = <<>> /\ shown = <<>> /\ viewer = TRUE
    /\ tty = "cooked"
    /\ winch = FALSE /\ sigwinch = FALSE /\ missed = FALSE
    /\ ttySize = 0 /\ ptySize = 0
    /\ clock = 0

PumpAt(there) ==
    /\ phase' = there
    /\ UNCHANGED <<limit, ready, pending, masterOpen, interrupted>>

\* _restore_termios notes that the terminal is restored before it restores it: what fails,
\* because the terminal is gone, is not tried again.
Restore == tty' \in IF stdinOpen THEN {"cooked"} ELSE {"cooked", "given up"}

\* MUTANT: the new PTY is not given the terminal's size.
OpenPtyUnsized ==
    /\ phase = "start"
    /\ PumpAt("sized")
    /\ missed' = FALSE /\ UNCHANGED ptySize
    /\ UNCHANGED <<child, inVars, outVars, tty, winch, sigwinch, ttySize, clock>>

\* run_with_pty: the PTY pair, with the terminal's size.
OpenPty ==
    /\ phase = "start"
    /\ PumpAt("sized")
    /\ ptySize' = ttySize /\ missed' = FALSE
    /\ UNCHANGED <<child, inVars, outVars, tty, winch, sigwinch, ttySize, clock>>

EnterRaw ==
    /\ phase = "sized"
    /\ PumpAt("raw")
    /\ tty' = "raw"
    /\ UNCHANGED <<child, inVars, outVars, sizeVars, clock>>

HandleWinch ==
    /\ phase = "raw"
    /\ PumpAt("handled")
    /\ winch' = TRUE
    /\ UNCHANGED <<child, inVars, outVars, tty, sigwinch, ttySize, ptySize, missed, clock>>

Spawn ==
    /\ phase = "handled"
    /\ \/ PumpAt("check") /\ child' = "running" /\ UNCHANGED <<tty, winch>>
       \/ PumpAt("raised") /\ Restore /\ winch' = FALSE /\ UNCHANGED child
    /\ UNCHANGED <<inVars, outVars, sigwinch, ttySize, ptySize, missed, clock>>

\* The head of the pump's loop.
CheckRunning ==
    /\ phase = "check"
    /\ PumpAt(IF child # "exited" /\ masterOpen THEN "select" ELSE "wait")
    /\ UNCHANGED <<child, inVars, outVars, tty, sizeVars, clock>>

\* MUTANT: the end of the child is not awaited.
ReadableOutput ==
    {fd \in {"stdin", "master"} :
        \/ fd = "stdin" /\ (read < Len(typed) \/ ~stdinOpen)
        \/ fd = "master" /\ outbuf # <<>>}

Readable ==
    {fd \in {"stdin", "master"} :
        \/ fd = "stdin" /\ (read < Len(typed) \/ ~stdinOpen)
        \/ fd = "master" /\ (outbuf # <<>> \/ child # "running")}

\* select has no time-out: it waits for input or output.
Select ==
    /\ phase = "select" /\ Readable # {}
    /\ ready' = Readable
    /\ phase' = IF "stdin" \in Readable THEN "stdin" ELSE "master"
    /\ UNCHANGED <<limit, pending, masterOpen, interrupted, child, inVars, outVars, tty,
                   sizeVars, clock>>

Least(m, n) == IF m <= n THEN m ELSE n

AfterStdin == IF "master" \in ready THEN "master" ELSE "check"

\* One read of what was typed, through the interceptor.  The end of stdin
\* leaves the pump.
ReadStdin ==
    /\ phase = "stdin"
    /\ \/ /\ read = Len(typed)
          /\ PumpAt("wait")
          /\ UNCHANGED <<read, imageFiles>>
       \/ /\ read < Len(typed)
          /\ LET n == Least(Chunk, Len(typed) - read)
                 chunk == SubSeq(typed, read + 1, read + n)
             IN  \E answer \in [{i \in 1..n : KeysAt(chunk, i) # {}} -> Answers] :
                    LET result == Intercepted(chunk, answer)
                    IN  /\ pending' = result.out
                        /\ imageFiles' = result.files
                        /\ phase' = IF result.out = <<>> THEN AfterStdin ELSE "writeMaster"
                        /\ read' = read + n
          /\ UNCHANGED <<ready, masterOpen, interrupted>>
    /\ UNCHANGED <<limit, child, typed, stdinOpen, toChild, taken, outVars, tty, sizeVars, clock>>

\* MUTANT: a partial write is taken for a whole one.
WriteMasterOnce ==
    /\ phase = "writeMaster"
    /\ Len(toChild) - taken < limit.capacity
    /\ toChild' = toChild \o
          SubSeq(pending, 1, Least(limit.capacity - (Len(toChild) - taken), Len(pending)))
    /\ pending' = <<>> /\ phase' = AfterStdin
    /\ UNCHANGED <<limit, ready, masterOpen, interrupted, child, typed, read, stdinOpen, taken,
                   imageFiles,
                   outVars, tty, sizeVars, clock>>

\* One os.write of _write_all to the PTY: it blocks while the PTY is full, and
\* goes on doing so when the child is gone.
WriteMaster ==
    /\ phase = "writeMaster"
    /\ Len(toChild) - taken < limit.capacity
    /\ LET n == Least(limit.capacity - (Len(toChild) - taken), Len(pending))
       IN  /\ toChild' = toChild \o SubSeq(pending, 1, n)
           /\ pending' = SubSeq(pending, n + 1, Len(pending))
    /\ phase' = IF pending' = <<>> THEN AfterStdin ELSE "writeMaster"
    /\ UNCHANGED <<limit, ready, masterOpen, interrupted, child, typed, read, stdinOpen, taken,
                   imageFiles,
                   outVars, tty, sizeVars, clock>>

\* One read of the child's output.  EIO means that the child has closed its end.
ReadMaster ==
    /\ phase = "master"
    /\ \/ /\ outbuf # <<>>
          /\ LET n == Least(Chunk, Len(outbuf))
             IN  /\ pending' = OnStdout(SubSeq(outbuf, 1, n))
                 /\ outbuf' = SubSeq(outbuf, n + 1, Len(outbuf))
          /\ phase' = "writeStdout"
          /\ UNCHANGED masterOpen
       \/ /\ outbuf = <<>>
          /\ masterOpen' = FALSE
          /\ phase' = "check"
          /\ UNCHANGED <<pending, outbuf>>
    /\ UNCHANGED <<limit, ready, interrupted, child, inVars, printed, shown, viewer, tty,
                   sizeVars, clock>>
-----------------------------------------------------------------------------
\* MUTANT: a partial write is taken for a whole one.
WriteStdoutOnce ==
    /\ phase = "writeStdout"
    /\ \/ viewer /\ \E n \in 1..Len(pending) : shown' = shown \o SubSeq(pending, 1, n)
       \/ ~viewer /\ UNCHANGED shown
    /\ pending' = <<>> /\ phase' = "check"
    /\ UNCHANGED <<limit, ready, masterOpen, interrupted, child, inVars, printed, outbuf, viewer,
                   tty,
                   sizeVars, clock>>

\* _write_all to stdout: partial writes, and EPIPE drops the rest.
WriteStdout ==
    /\ phase = "writeStdout"
    /\ \/ /\ viewer
          /\ \E n \in 1..Len(pending) :
                /\ shown' = shown \o SubSeq(pending, 1, n)
                /\ pending' = SubSeq(pending, n + 1, Len(pending))
       \/ ~viewer /\ pending' = <<>> /\ UNCHANGED shown
    /\ phase' = IF pending' = <<>> THEN "check" ELSE "writeStdout"
    /\ UNCHANGED <<limit, ready, masterOpen, interrupted, child, inVars, printed, outbuf, viewer,
                   tty,
                   sizeVars, clock>>

\* MUTANT: the terminal is restored at exit only.
WaitForChildRaw ==
    /\ phase = "wait" /\ child = "exited"
    /\ PumpAt("returned")
    /\ winch' = FALSE
    /\ UNCHANGED <<child, inVars, outVars, tty, sigwinch, ttySize, ptySize, missed, clock>>

\* child.wait() and the finally clause.
WaitForChild ==
    /\ phase = "wait" /\ child = "exited"
    /\ PumpAt("returned")
    /\ Restore /\ winch' = FALSE
    /\ UNCHANGED <<child, inVars, outVars, sigwinch, ttySize, ptySize, missed, clock>>

\* MUTANT: what was being written is kept.
InterruptKeeping ==
    /\ phase \in Pumping /\ ~interrupted
    /\ phase' = "wait" /\ interrupted' = TRUE
    /\ UNCHANGED <<limit, ready, pending, masterOpen, tty, winch>>
    /\ UNCHANGED <<child, inVars, outVars, sigwinch, ttySize, ptySize, missed, clock>>

\* A KeyboardInterrupt.  During the setup nothing catches it; the first one after
\* it is handed on to the child, which is waited for; a second one runs the
\* finally clause and leaves.  In that clause one leaves too, before anything is restored or
\* while the terminal is.
Interrupt ==
    /\ \/ phase \in Setup /\ PumpAt("raised") /\ UNCHANGED <<tty, winch>>
       \/ /\ phase \in Pumping \cup {"wait"} /\ ~interrupted
          /\ phase' = "wait" /\ interrupted' = TRUE /\ pending' = <<>>
          /\ UNCHANGED <<limit, ready, masterOpen, tty, winch>>
       \/ /\ phase = "wait" /\ (interrupted \/ child = "exited")
          /\ PumpAt("raised")
          /\ \/ UNCHANGED <<tty, winch>>
             \/ tty' = "given up" /\ winch' = FALSE
             \/ interrupted /\ Restore /\ winch' = FALSE
    /\ UNCHANGED <<child, inVars, outVars, sigwinch, ttySize, ptySize, missed, clock>>

\* The process ends of itself, and the atexit hook restores the terminal, if that has
\* not been tried.
AtExit ==
    /\ phase \in {"returned", "raised"}
    /\ PumpAt("gone")
    /\ IF tty = "given up" THEN UNCHANGED tty ELSE Restore
    /\ winch' = FALSE /\ sigwinch' = FALSE
    /\ UNCHANGED <<child, inVars, outVars, ttySize, ptySize, missed, clock>>

\* _on_winch: the handler runs between any two steps of the main thread, also
\* while it is blocked.
OnWinch ==
    /\ sigwinch /\ winch
    /\ sigwinch' = FALSE
    /\ ptySize' = ttySize
    /\ UNCHANGED <<pumpVars, child, inVars, outVars, tty, winch, ttySize, missed, clock>>
-----------------------------------------------------------------------------
(* The user, the child and the clock.  Once run_with_pty is left, only a   *)
(* resize and the end of the terminal still reach the process.             *)

Attached == phase \notin Over

Type ==
    /\ Attached /\ stdinOpen /\ Len(typed) < limit.typed
    /\ \E b \in Bytes : typed' = Append(typed, b)
    /\ UNCHANGED <<pumpVars, child, read, stdinOpen, toChild, taken, imageFiles, outVars, tty,
                   sizeVars, clock>>

CloseStdin ==
    /\ phase # "gone" /\ stdinOpen /\ "stdin" \in limit.closes /\ stdinOpen' = FALSE
    /\ UNCHANGED <<pumpVars, child, typed, read, toChild, taken, imageFiles, outVars, tty,
                   sizeVars, clock>>

CloseStdout ==
    /\ Attached /\ viewer /\ "stdout" \in limit.closes /\ viewer' = FALSE
    /\ UNCHANGED <<pumpVars, child, inVars, printed, outbuf, shown, tty, sizeVars, clock>>

\* Without a handler the signal is ignored.
Resize ==
    /\ ttySize < limit.resized /\ phase # "gone"
    /\ ttySize' = ttySize + 1
    /\ sigwinch' = winch
    /\ missed' = ~winch
    /\ UNCHANGED <<pumpVars, child, inVars, outVars, tty, winch, ptySize, clock>>

ChildReads ==
    /\ Attached /\ child = "running" /\ taken < Len(toChild)
    /\ taken' = taken + 1
    /\ UNCHANGED <<pumpVars, child, typed, read, stdinOpen, toChild, imageFiles, outVars, tty,
                   sizeVars, clock>>

ChildPrints ==
    /\ Attached /\ child = "running" /\ printed < limit.printed /\ Len(outbuf) < limit.capacity
    /\ printed' = printed + 1
    /\ outbuf' = Append(outbuf, printed + 1)
    /\ UNCHANGED <<pumpVars, child, inVars, shown, viewer, tty, sizeVars, clock>>

ChildEnds ==
    /\ Attached
    /\ \/ child = "running" /\ child' = "closed"
       \/ child = "closed" /\ child' = "exited"
    /\ UNCHANGED <<pumpVars, inVars, outVars, tty, sizeVars, clock>>

Tick ==
    /\ Attached /\ clock < limit.seconds /\ clock' = clock + 1
    /\ UNCHANGED <<pumpVars, child, inVars, outVars, tty, sizeVars>>

PumpStep == CheckRunning \/ Select \/ ReadStdin \/ WriteMaster \/ ReadMaster \/ WriteStdout
SetupStep == OpenPty \/ EnterRaw \/ HandleWinch \/ Spawn
EndStep == WaitForChild \/ AtExit

Environment ==
    \/ Type \/ CloseStdin \/ CloseStdout \/ Resize \/ Tick
    \/ ChildReads \/ ChildPrints \/ ChildEnds

PtyNext == SetupStep \/ PumpStep \/ EndStep \/ Interrupt \/ OnWinch \/ Environment

PtySpec == PtyInit /\ [][PtyNext]_ptyVars

\* hatchery's own steps are fair, and so are the child's reads: a terminal program
\* keeps reading its terminal while it runs.
PtyFairness ==
    /\ WF_ptyVars(SetupStep) /\ WF_ptyVars(PumpStep) /\ WF_ptyVars(EndStep) /\ WF_ptyVars(OnWinch)
    /\ WF_ptyVars(ChildReads)
    /\ WF_ptyVars(child = "closed" /\ ChildEnds)
-----------------------------------------------------------------------------
PtyTypeOK ==
    /\ limit \in Limits
    /\ phase \in Setup \cup Pumping \cup {"wait"} \cup Over
    /\ ready \subseteq {"stdin", "master"}
    /\ \/ phase = "writeMaster" /\ pending \in Seq(Bytes \cup References) \ {<<>>}
       \/ phase = "writeStdout" /\ pending \in Seq(1..limit.printed) \ {<<>>}
       \/ phase \notin {"writeMaster", "writeStdout"} /\ pending = <<>>
    /\ masterOpen \in BOOLEAN /\ interrupted \in BOOLEAN /\ stdinOpen \in BOOLEAN
    /\ viewer \in BOOLEAN /\ tty \in {"cooked", "raw", "given up"} /\ winch \in BOOLEAN
    /\ sigwinch \in BOOLEAN /\ missed \in BOOLEAN
    /\ child \in {"unborn", "running", "closed", "exited"}
    /\ typed \in Seq(Bytes) /\ read \in 0..Len(typed)
    /\ toChild \in Seq(Bytes \cup References) /\ taken \in 0..Len(toChild)
    /\ DOMAIN imageFiles \subseteq Paths /\ \A p \in DOMAIN imageFiles : imageFiles[p] \in Images
    /\ printed \in 0..limit.printed
    /\ outbuf \in Seq(1..limit.printed) /\ shown \in Seq(1..limit.printed)
    /\ ttySize \in 0..limit.resized /\ ptySize \in 0..limit.resized
    /\ clock \in 0..limit.seconds

\* What the user typed to get these bytes.
Keys(bytes) == FlattenSeq([i \in DOMAIN bytes |->
                  IF bytes[i] \in Bytes THEN <<bytes[i]>> ELSE bytes[i].key])

\* What of the bytes in _write_all's hands goes in direction d.
InHand(d) == IF phase = d THEN pending ELSE <<>>

\* No key is lost, doubled or moved on its way to the child, however chunks,
\* partial writes and full buffers fall: while the pump runs, what it has read is
\* what it has written or is writing.  (A paste key whose image cannot be saved is
\* dropped, against PasteInterceptor's docstring, "otherwise the trigger passes
\* through unchanged": without such failures.)
KeysArrive ==
    phase \in Pumping /\ ~limit.unsaved =>
        Keys(toChild \o InHand("writeMaster")) = SubSeq(typed, 1, read)

\* No output is lost, doubled or moved while the pump runs and somebody reads
\* it; what is shown is a prefix of what was printed also afterwards.
OutputArrives ==
    LET all == [i \in 1..printed |-> i]
    IN  /\ phase \in Pumping /\ viewer => shown \o InHand("writeStdout") \o outbuf = all
        /\ viewer => IsPrefix(shown, all)

\* A reference typed into the agent names the file with the very image that was on
\* the clipboard: no later paste of the same second overwrites it.
PastesKept ==
    \A i \in DOMAIN toChild :
        toChild[i] \in Bytes \/ imageFiles[toChild[i].path] = toChild[i].image

\* The user's terminal is not left in raw mode when run_with_pty returns, nor when the
\* process ends by itself or of an exception, wherever in the set-up, the pump or the
\* finally clause this was raised; no signal that kills the process outright runs the
\* hook.  It is, where the one try to restore it failed or was itself interrupted
\* (against the comment "Either restore is idempotent").
TerminalRestored ==
    /\ phase = "returned" => tty # "raw" /\ ~winch
    /\ phase = "gone" => tty # "raw"

\* The agent's terminal has the size of the user's once no signal is pending,
\* but for a resize that came after the size was read and before the handler was
\* installed (against the comment "Forward window-size changes").
SizeInSync ==
    phase \in Pumping /\ ~sigwinch /\ ~missed => ptySize = ttySize

\* The run ends when the child has ended, unless the pump is stuck in a blocking
\* write of what the child did not read (against _pump's docstring, "until
\* is_running() returns False or master closes").
Stuck == phase = "writeMaster" /\ Len(toChild) - taken = limit.capacity
EndsWithChild == (child = "exited") ~> (phase \in Over \/ Stuck)
=============================================================================
