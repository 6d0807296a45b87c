--------------------------- MODULE ImagePipeline ---------------------------
(***************************************************************************)
(* How a picture gets from the server to the panel: the refresh of         *)
(* client/loop.sh (fetch_with_poll, validate_png, draw) and the one-shot   *)
(* client/refresh.sh, which use the same state/last.png.tmp and            *)
(* state/last.png.                                                         *)
(*                                                                         *)
(* Files are names bound to inodes.  curl truncates the inode behind the   *)
(* name it is given and goes on writing to that inode whatever becomes of  *)
(* the name; mv moves the binding.  A file has two parts, the first of     *)
(* which holds the magic bytes; a part is missing, or of an HTML page, or  *)
(* of the picture served to one of the processes.                          *)
(***************************************************************************)
EXTENDS Integers

CONSTANTS
    Inodes,         \* inodes of the partition
    None,           \* an unbound name, a closed descriptor
    GhostEvery      \* GHOST_REFRESH_EVERY

ASSUME PipelineAssumption ==
    /\ None \notin Inodes
    /\ GhostEvery \in Nat

VARIABLES
    tmp, out,       \* the inodes $TMP and $OUT are bound to
    data,           \* data[i]: the two parts of inode i
    fd,             \* fd[p]: the inode p's curl writes to
    served,         \* served[p]: what the server sends p
    pc,
    screen,         \* what the panel shows
    saver,          \* what the screensaver file holds
    cycle,          \* cycle_count % GHOST_REFRESH_EVERY
    torn,           \* history: the last copy to it was cut short
    partials,       \* history: the loop's partial refreshes since its last full flash
    missed          \* history: a full flash was due since and did not come

files == <<tmp, out, data>>
display == <<screen, saver, torn, partials>>
vars == <<files, fd, served, pc, display, cycle, missed>>

Procs == {"loop", "refresh"}
Missing == "missing"
Parts == Procs \cup {"html", Missing}
Empty == <<Missing, Missing>>
Contents == Parts \X Parts

TypeOK ==
    /\ tmp \in Inodes \cup {None} /\ out \in Inodes \cup {None}
    /\ data \in [Inodes -> Contents]
    /\ fd \in [Procs -> Inodes \cup {None}]
    /\ served \in [Procs -> Procs \cup {"html"}]
    /\ pc \in [Procs -> {"idle", "open", "half", "check", "move", "draw", "publish", "copy"}]
    /\ screen \in Contents /\ saver \in Contents /\ torn \in BOOLEAN
    /\ cycle \in 0..GhostEvery
    /\ partials \in 0..GhostEvery
    /\ missed \in BOOLEAN

Init ==
    /\ tmp = None /\ out = None
    /\ data = [i \in Inodes |-> Empty]
    /\ fd = [p \in Procs |-> None]
    /\ served = [p \in Procs |-> p]
    /\ pc = [p \in Procs |-> "idle"]
    /\ screen = Empty /\ saver = Empty /\ torn = FALSE
    /\ cycle = 0 /\ partials = 0 /\ missed = FALSE
-----------------------------------------------------------------------------
Goto(p, at) == pc' = [pc EXCEPT ![p] = at]
Unused == Inodes \ ({tmp, out} \cup {fd[p] : p \in Procs})
FlashDue == GhostEvery > 0 /\ cycle = 0

\* curl opens its output: create $TMP or truncate what it is bound to.
OpenTmp(p) ==
    /\ \/ tmp # None /\ UNCHANGED tmp
       \/ tmp = None /\ tmp' \in Unused
    /\ data' = [data EXCEPT ![tmp'] = Empty]
    /\ fd' = [fd EXCEPT ![p] = tmp']
    /\ \E s \in {p, "html"} : served' = [served EXCEPT ![p] = s]
    /\ Goto(p, "open")
    /\ UNCHANGED <<out, display>>

\* Defect: curl writes to $OUT.
OpenOut(p) ==
    /\ \/ out # None /\ UNCHANGED out
       \/ out = None /\ out' \in Unused
    /\ data' = [data EXCEPT ![out'] = Empty]
    /\ fd' = [fd EXCEPT ![p] = out']
    /\ \E s \in {p, "html"} : served' = [served EXCEPT ![p] = s]
    /\ Goto(p, "open")
    /\ UNCHANGED <<tmp, display>>

Open(p) == OpenTmp(p)

\* A refresh begins; the daemon counts its cycles, refresh.sh does not.  Nothing in
\* the scripts keeps them apart: that they are run apart is assumed here.
Begin(p) ==
    /\ pc[p] = "idle"
    /\ \A q \in Procs : pc[q] = "idle"
    /\ Open(p)
    /\ \/ p = "loop" /\ cycle' = IF GhostEvery > 0 THEN (cycle + 1) % GhostEvery ELSE 0
       \/ p # "loop" /\ UNCHANGED cycle
    /\ UNCHANGED missed

\* curl receives the first and the last part of the answer.
Receive(p) ==
    /\ \/ /\ pc[p] = "open"
          /\ data' = [data EXCEPT ![fd[p]] = <<served[p], @[2]>>]
          /\ Goto(p, "half")
          /\ UNCHANGED fd
       \/ /\ pc[p] = "half"
          /\ data' = [data EXCEPT ![fd[p]] = <<@[1], served[p]>>]
          /\ Goto(p, "check")
          /\ fd' = [fd EXCEPT ![p] = None]
    /\ UNCHANGED <<tmp, out, served, display, cycle, missed>>

\* curl fails and the daemon polls again.
Retry(p) ==
    /\ p = "loop"
    /\ pc[p] \in {"open", "half"}
    /\ Open(p)
    /\ UNCHANGED <<cycle, missed>>

\* The refresh is over without a picture: rm -f $TMP, which may fail.
GiveUp(p) ==
    /\ tmp' \in {None, tmp}
    /\ fd' = [fd EXCEPT ![p] = None]
    /\ Goto(p, "idle")
    /\ missed' = (missed \/ (p = "loop" /\ FlashDue))
    /\ UNCHANGED <<out, data, served, display, cycle>>

\* curl fails for the last time.
FetchFails(p) ==
    /\ pc[p] \in {"open", "half"}
    /\ GiveUp(p)

\* validate_png reads the first bytes of whatever $TMP is bound to.
IsPng == tmp # None /\ data[tmp][1] \in Procs

\* Defect: no check of the magic bytes.
AnyFile == TRUE

MagicOk == IsPng

\* The bytes are not those of a PNG, or od fails on a file whose bytes are.
Reject(p) ==
    /\ pc[p] = "check"
    /\ GiveUp(p)

Accept(p) ==
    /\ pc[p] = "check"
    /\ MagicOk
    /\ Goto(p, "move")
    /\ UNCHANGED <<files, fd, served, display, cycle, missed>>

\* mv $TMP $OUT.  Neither script asks whether it succeeded: when it fails, they go on
\* with the picture $OUT had before, if any, and $TMP stays.
Move(p) ==
    /\ pc[p] = "move"
    /\ \/ tmp # None /\ out' = tmp /\ tmp' = None
       \/ UNCHANGED <<out, tmp>>
    /\ Goto(p, "draw")
    /\ UNCHANGED <<data, fd, served, display, cycle, missed>>

\* Defect: the counter is compared with the period itself.
FlashNever == GhostEvery > 0 /\ cycle = GhostEvery

FlashNow == FlashDue

\* eips reads $OUT and draws it: refresh.sh always partially, the daemon now and then
\* with the full waveform.
Draw(p) ==
    /\ pc[p] = "draw"
    /\ out # None
    /\ screen' = data[out]
    /\ \/ p = "loop" /\ FlashNow /\ partials' = 0 /\ missed' = FALSE
       \/ /\ p # "loop" \/ ~FlashNow
          /\ partials' = IF p = "loop" /\ partials < GhostEvery THEN partials + 1 ELSE partials
          /\ UNCHANGED missed
    /\ Goto(p, "publish")
    /\ UNCHANGED <<files, fd, served, saver, torn, cycle>>

\* eips fails, which is only logged, and leaves the panel as it was.
DrawFails(p) ==
    /\ pc[p] = "draw"
    /\ missed' = (missed \/ (p = "loop" /\ FlashDue))
    /\ Goto(p, "publish")
    /\ UNCHANGED <<files, fd, served, display, cycle>>

\* Defect: $OUT linked where it is to be copied: the screensaver is an inode.
PublishLink(p) ==
    /\ pc[p] = "publish"
    /\ saver' = out
    /\ Goto(p, "copy")
    /\ UNCHANGED <<files, fd, served, screen, torn, partials, cycle, missed>>

\* cp truncates the screensaver, if there is one, and writes it again.
Publish(p) ==
    /\ pc[p] = "publish"
    /\ out # None
    /\ saver' = <<data[out][1], Missing>>
    /\ Goto(p, "copy")
    /\ UNCHANGED <<files, fd, served, screen, torn, partials, cycle, missed>>

\* No screensaver is configured or installed, there is no $OUT, or cp cannot open one
\* of the two files.
NoPublish(p) ==
    /\ pc[p] = "publish"
    /\ Goto(p, "idle")
    /\ UNCHANGED <<files, fd, served, display, cycle, missed>>

Copied(p) ==
    /\ pc[p] = "copy"
    /\ saver' = data[out] /\ torn' = FALSE
    /\ Goto(p, "idle")
    /\ UNCHANGED <<files, fd, served, screen, partials, cycle, missed>>

CopyFails(p) ==
    /\ pc[p] = "copy"
    /\ torn' = TRUE
    /\ Goto(p, "idle")
    /\ UNCHANGED <<files, fd, served, screen, saver, partials, cycle, missed>>

\* A script and its curl die; the files stay as they are.
Crash(p) ==
    /\ pc[p] # "idle"
    /\ fd' = [fd EXCEPT ![p] = None]
    /\ Goto(p, "idle")
    /\ cycle' = IF p = "loop" THEN 0 ELSE cycle
    /\ missed' = (missed \/ p = "loop")
    /\ torn' = (torn \/ pc[p] = "copy")
    /\ UNCHANGED <<files, served, screen, saver, partials>>

Next ==
    \E p \in Procs :
       \/ Begin(p) \/ Receive(p) \/ Retry(p) \/ FetchFails(p) \/ Reject(p)
       \/ Accept(p) \/ Move(p) \/ Draw(p) \/ DrawFails(p) \/ Publish(p)
       \/ NoPublish(p) \/ Copied(p) \/ CopyFails(p) \/ Crash(p)

Spec == Init /\ [][Next]_vars
-----------------------------------------------------------------------------
\* A whole picture, both parts of the same answer.
Whole(c) == c[1] \in Procs /\ c[1] = c[2]

\* "Never let eips read a half-written PNG": the panel shows a whole picture, or
\* what it showed before the first one, also when mv failed and eips went on.
DrawnWhole == screen = Empty \/ Whole(screen)

\* $OUT is a whole picture whatever fails or dies when, and so is the screensaver
\* unless the very copy to it was cut short.
KeptWhole ==
    /\ out # None => Whole(data[out])
    /\ saver = Empty \/ Whole(saver) \/ torn \/ \E p \in Procs : pc[p] = "copy"

\* Ghosts do not pile up: unless a cycle that was due to flash failed or the count
\* was lost, fewer than GHOST_REFRESH_EVERY partial refreshes of the daemon follow
\* each other.  Those of refresh.sh come on top, and the daemon does not count them.
GhostsCleared == GhostEvery > 0 /\ ~missed => partials < GhostEvery
=============================================================================
