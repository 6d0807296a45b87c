------------------------ MODULE ImagePipelineProofs ------------------------
(***************************************************************************)
(* With the scripts run one at a time, only whole pictures are drawn and   *)
(* kept, and ghosts are cleared: for any number of inodes and any period   *)
(* of the full flash, whichever of curl, od, mv, rm, eips and cp fails and *)
(* whenever a script dies.                                                 *)
(***************************************************************************)
EXTENDS ImagePipeline, TLAPS

USE PipelineAssumption

Fetching == {"open", "half"}
BeforeDraw == {"open", "half", "check", "move", "draw"}

\* The temporary file is never the picture that is kept, and holds what the running
\* script has received so far.
TmpInv ==
    /\ \A p, q \in Procs : pc[p] # "idle" /\ pc[q] # "idle" => p = q
    /\ tmp # None => tmp # out
    /\ out # None => Whole(data[out])
    /\ \A p \in Procs :
          /\ pc[p] \in Fetching => fd[p] = tmp /\ tmp # None
          /\ pc[p] \notin Fetching => fd[p] = None
          /\ pc[p] = "half" => data[tmp][1] = served[p]
          /\ pc[p] = "check" => tmp # None /\ data[tmp] = <<served[p], served[p]>>
          /\ pc[p] = "move" => tmp # None /\ Whole(data[tmp])
          /\ pc[p] = "copy" => out # None

\* Without a flash missed, the daemon has made no more partial refreshes than cycles
\* since the flash, the one that is under way not counted until it draws.
GhostInv ==
    /\ GhostEvery > 0 => cycle < GhostEvery
    /\ GhostEvery > 0 /\ ~missed =>
          /\ pc["loop"] \notin BeforeDraw => partials <= cycle
          /\ pc["loop"] \in BeforeDraw /\ cycle > 0 => partials <= cycle - 1
          /\ partials < GhostEvery

PipeInv == TypeOK /\ TmpInv /\ DrawnWhole /\ KeptWhole /\ GhostInv

\* Contents: the empty one, one cut short, and one with a part written.
LEMMA Parted ==
    /\ Empty \in Contents
    /\ \A c \in Contents : c[1] \in Parts /\ c[2] \in Parts /\ <<c[1], Missing>> \in Contents
    /\ \A s, t \in Parts : <<s, t>> \in Contents
BY DEF Contents, Parts, Empty, Missing

LEMMA InitInv == Init => PipeInv
<1> SUFFICES ASSUME Init PROVE PipeInv
  OBVIOUS
<1> USE DEF Init
<1>1. TypeOK
  <2>1. Empty \in Contents
    BY DEF Empty, Contents, Parts
  <2>2. tmp = None /\ out = None /\ data \in [Inodes -> Contents]
    BY <2>1
  <2>3. fd \in [Procs -> Inodes \cup {None}] /\ served \in [Procs -> Procs \cup {"html"}]
    OBVIOUS
  <2>4. pc \in [Procs -> {"idle", "open", "half", "check", "move", "draw", "publish", "copy"}]
    OBVIOUS
  <2>5. screen \in Contents /\ saver \in Contents /\ torn \in BOOLEAN /\ missed \in BOOLEAN
    BY <2>1
  <2>6. cycle \in 0..GhostEvery /\ partials \in 0..GhostEvery
    OBVIOUS
  <2> QED BY <2>2, <2>3, <2>4, <2>5, <2>6 DEF TypeOK
<1>2. TmpInv
  BY DEF TmpInv, Fetching, Procs
<1>3. DrawnWhole /\ KeptWhole /\ GhostInv
  BY DEF DrawnWhole, KeptWhole, GhostInv, BeforeDraw, Procs
<1> QED BY <1>1, <1>2, <1>3 DEF PipeInv

\* The counter of the daemon goes round.
LEMMA Count ==
    ASSUME NEW g \in Nat, NEW n \in Nat, n < g
    PROVE  (n + 1) % g = IF n + 1 = g THEN 0 ELSE n + 1
BY SMT


\* Opening the temporary file empties it and leaves the picture alone.
LEMMA Opened ==
    ASSUME PipeInv, NEW p \in Procs, Open(p), pc[p] \in {"idle", "open", "half"},
           \A q \in Procs \ {p} : pc[q] = "idle"
    PROVE  /\ tmp' \in Inodes /\ data' \in [Inodes -> Contents]
           /\ fd' \in [Procs -> Inodes \cup {None}]
           /\ served' \in [Procs -> Procs \cup {"html"}]
           /\ TmpInv' /\ DrawnWhole' /\ KeptWhole'
<1> USE DEF PipeInv, TypeOK, Open, OpenTmp, files, display
<1>1. tmp' \in Inodes /\ tmp' # out /\ tmp' # None
  BY DEF Unused, TmpInv
<1>2. /\ data' \in [Inodes -> Contents] /\ out' = out
      /\ out # None => data'[out] = data[out]
  <2>1. Empty \in Contents
    BY DEF Empty, Contents, Parts
  <2>2. data' = [data EXCEPT ![tmp'] = Empty]
    OBVIOUS
  <2> QED BY <1>1, <2>1, <2>2
<1>3. /\ fd' \in [Procs -> Inodes \cup {None}]
      /\ served' \in [Procs -> Procs \cup {"html"}]
  BY <1>1
<1>4. /\ pc' \in [Procs -> {"idle", "open", "half", "check", "move", "draw", "publish", "copy"}]
      /\ pc'[p] = "open" /\ fd'[p] = tmp'
      /\ \A q \in Procs \ {p} : pc'[q] = "idle" /\ fd'[q] = fd[q]
  BY DEF Goto
<1>5. TmpInv'
  BY <1>1, <1>2, <1>4 DEF TmpInv, Fetching
<1>6. DrawnWhole' /\ KeptWhole'
  <2> QED BY <1>1, <1>2, <1>4 DEF DrawnWhole, KeptWhole, TmpInv
<1> QED BY <1>1, <1>2, <1>3, <1>5, <1>6


LEMMA StepInv == PipeInv /\ [Next]_vars => PipeInv'
<1> SUFFICES ASSUME PipeInv, [Next]_vars PROVE PipeInv'
  OBVIOUS
<1>1. CASE UNCHANGED vars
  BY <1>1 DEF vars, files, display, PipeInv, TypeOK, TmpInv, DrawnWhole, KeptWhole, GhostInv,
     Whole
<1>2. ASSUME NEW p \in Procs, pc[p] # "idle" PROVE \A q \in Procs \ {p} : pc[q] = "idle"
  BY <1>2 DEF PipeInv, TmpInv
<1>3. ASSUME NEW p \in Procs, Begin(p) PROVE PipeInv'
  <2>1. Open(p) /\ pc[p] = "idle" /\ \A q \in Procs \ {p} : pc[q] = "idle"
    BY <1>3 DEF Begin
  <2>2. /\ tmp' \in Inodes /\ data' \in [Inodes -> Contents]
        /\ fd' \in [Procs -> Inodes \cup {None}]
        /\ served' \in [Procs -> Procs \cup {"html"}]
        /\ TmpInv' /\ DrawnWhole' /\ KeptWhole'
    BY <2>1, Opened
  <2>3. /\ UNCHANGED <<out, display, missed>>
        /\ pc' = [pc EXCEPT ![p] = "open"]
    BY <1>3 DEF Begin, Open, OpenTmp, Goto
  <2>4. cycle' \in 0..GhostEvery /\ GhostInv'
    <3> USE <1>3, <2>1, <2>3 DEF PipeInv, TypeOK, GhostInv, display, BeforeDraw, Begin
    <3>1. CASE GhostEvery = 0
      BY <3>1
    <3>2. CASE GhostEvery > 0 /\ p = "loop"
      <4>1. cycle \in Nat /\ cycle < GhostEvery
        BY <3>2
      <4>2. cycle' = IF cycle + 1 = GhostEvery THEN 0 ELSE cycle + 1
        BY <3>2, <4>1, Count
      <4> QED BY <3>2, <4>1, <4>2 DEF Procs
    <3>3. CASE GhostEvery > 0 /\ p # "loop"
      BY <3>3 DEF Procs
    <3> QED BY <3>1, <3>2, <3>3
  <2> QED BY <2>2, <2>3, <2>4 DEF PipeInv, TypeOK, display
<1>4. ASSUME NEW p \in Procs, Retry(p) PROVE PipeInv'
  <2>1. Open(p) /\ p = "loop" /\ pc[p] \in {"open", "half"} /\ \A q \in Procs \ {p} : pc[q] = "idle"
    BY <1>2, <1>4 DEF Retry
  <2>2. /\ tmp' \in Inodes /\ data' \in [Inodes -> Contents]
        /\ fd' \in [Procs -> Inodes \cup {None}]
        /\ served' \in [Procs -> Procs \cup {"html"}]
        /\ TmpInv' /\ DrawnWhole' /\ KeptWhole'
    BY <2>1, Opened
  <2>3. /\ UNCHANGED <<out, display, missed, cycle>>
        /\ pc' = [pc EXCEPT ![p] = "open"]
    BY <1>4 DEF Retry, Open, OpenTmp, Goto
  <2>4. GhostInv'
    BY <2>1, <2>3 DEF PipeInv, TypeOK, GhostInv, display, BeforeDraw
  <2> QED BY <2>2, <2>3, <2>4 DEF PipeInv, TypeOK, display
<1>5. ASSUME NEW p \in Procs, Receive(p) PROVE PipeInv'
  <2> USE DEF PipeInv, TypeOK, Receive, display
  <2>1. /\ fd[p] = tmp /\ tmp \in Inodes /\ tmp # out
        /\ data[tmp] \in Contents /\ served[p] \in Parts
    BY <1>5 DEF TmpInv, Fetching, Parts
  <2>2. CASE pc[p] = "open"
    <3>1. /\ data' = [data EXCEPT ![tmp] = <<served[p], data[tmp][2]>>]
          /\ <<served[p], data[tmp][2]>> \in Contents
      <4>1. <<served[p], data[tmp][2]>> \in Contents
        BY ONLY <2>1, Parted
      <4> QED BY <1>5, <2>1, <2>2, <4>1
    <3>2. /\ pc' = [pc EXCEPT ![p] = "half"] /\ UNCHANGED fd
          /\ UNCHANGED <<tmp, out, served, screen, saver, torn, partials, cycle, missed>>
      BY <1>5, <2>2 DEF Goto
    <3>3. TypeOK'
      BY <2>1, <3>1, <3>2
    <3>4. TmpInv' /\ DrawnWhole' /\ KeptWhole'
      BY <1>2, <2>1, <2>2, <3>1, <3>2 DEF TmpInv, Fetching, DrawnWhole, KeptWhole
    <3>5. GhostInv'
      BY <2>2, <3>2 DEF GhostInv, BeforeDraw
    <3> QED BY <3>3, <3>4, <3>5
  <2>3. CASE pc[p] = "half"
    <3>1. /\ data' = [data EXCEPT ![tmp] = <<served[p], served[p]>>]
          /\ <<served[p], served[p]>> \in Contents
      <4>1. data[tmp][1] = served[p]
        BY <2>3 DEF TmpInv
      <4>2. <<served[p], served[p]>> \in Contents
        BY ONLY <2>1, Parted
      <4> QED BY <1>5, <2>1, <2>3, <4>1, <4>2
    <3>2. /\ pc' = [pc EXCEPT ![p] = "check"] /\ fd' = [fd EXCEPT ![p] = None]
          /\ UNCHANGED <<tmp, out, served, screen, saver, torn, partials, cycle, missed>>
      BY <1>5, <2>3 DEF Goto
    <3>3. TypeOK'
      BY <2>1, <3>1, <3>2
    <3>4. TmpInv' /\ DrawnWhole' /\ KeptWhole'
      BY <1>2, <2>1, <2>3, <3>1, <3>2 DEF TmpInv, Fetching, DrawnWhole, KeptWhole
    <3>5. GhostInv'
      BY <2>3, <3>2 DEF GhostInv, BeforeDraw
    <3> QED BY <3>3, <3>4, <3>5
  <2> QED BY <1>5, <2>2, <2>3
<1>6. ASSUME NEW p \in Procs, FetchFails(p) \/ Reject(p) PROVE PipeInv'
  <2> USE DEF PipeInv, TypeOK, FetchFails, Reject, GiveUp, Goto, display, FlashDue
  <2>1. TypeOK'
    BY <1>6
  <2>2. TmpInv' /\ DrawnWhole' /\ KeptWhole'
    BY <1>2, <1>6 DEF TmpInv, Fetching, DrawnWhole, KeptWhole
  <2>3. ~missed' => ~missed /\ ~(p = "loop" /\ FlashDue)
    BY <1>6
  <2>4. UNCHANGED <<cycle, partials>> /\ pc' = [pc EXCEPT ![p] = "idle"] /\ pc[p] \in BeforeDraw
    BY <1>6 DEF BeforeDraw
  <2>5. GhostInv'
    BY <2>3, <2>4 DEF GhostInv, BeforeDraw, Procs
  <2> QED BY <2>1, <2>2, <2>5
<1>7. ASSUME NEW p \in Procs, Accept(p) PROVE PipeInv'
  <2> USE DEF PipeInv, TypeOK, Accept, Goto, files, display
  <2>1. TypeOK' /\ GhostInv'
    BY <1>7 DEF GhostInv, BeforeDraw
  <2>2. Whole(data[tmp])
    BY <1>7 DEF TmpInv, MagicOk, IsPng, Whole
  <2>3. TmpInv' /\ DrawnWhole' /\ KeptWhole'
    BY <1>2, <1>7, <2>2 DEF TmpInv, Fetching, DrawnWhole, KeptWhole
  <2> QED BY <2>1, <2>3
<1>8. ASSUME NEW p \in Procs, Move(p) PROVE PipeInv'
  <2> USE DEF PipeInv, TypeOK, Move, Goto, display
  <2>1. TypeOK' /\ GhostInv'
    BY <1>8 DEF GhostInv, BeforeDraw
  <2>2. TmpInv' /\ DrawnWhole' /\ KeptWhole'
    BY <1>2, <1>8 DEF TmpInv, Fetching, DrawnWhole, KeptWhole
  <2> QED BY <2>1, <2>2
<1>9. ASSUME NEW p \in Procs, Draw(p) \/ DrawFails(p) PROVE PipeInv'
  <2> USE DEF PipeInv, TypeOK, Goto, files, display
  <2>1. /\ pc[p] = "draw" /\ pc' = [pc EXCEPT ![p] = "publish"]
        /\ UNCHANGED <<tmp, out, data, fd, served, saver, torn, cycle>>
    BY <1>9 DEF Draw, DrawFails
  <2>2. screen' = screen \/ (out # None /\ screen' = data[out])
    BY <1>9 DEF Draw, DrawFails
  <2>3. partials' \in 0..GhostEvery /\ missed' \in BOOLEAN /\ GhostInv'
    <3>1. CASE p = "loop" /\ Draw(p) /\ FlashNow
      <4>1. partials' = 0 /\ ~missed' /\ missed' \in BOOLEAN
        BY <3>1 DEF Draw
      <4> QED BY <2>1, <4>1 DEF GhostInv, BeforeDraw
    <3>2. CASE p = "loop" /\ Draw(p) /\ ~FlashNow
      <4>1. partials' = (IF partials < GhostEvery THEN partials + 1 ELSE partials) /\ missed' = missed
        BY <3>2 DEF Draw
      <4> QED BY <2>1, <3>2, <4>1 DEF GhostInv, BeforeDraw, FlashNow, FlashDue
    <3>3. CASE p = "loop" /\ DrawFails(p)
      <4>1. partials' = partials /\ missed' \in BOOLEAN /\ (~missed' => ~missed /\ ~FlashDue)
        BY <3>3 DEF DrawFails
      <4> QED BY <2>1, <3>3, <4>1 DEF GhostInv, BeforeDraw, FlashDue
    <3>4. CASE p # "loop"
      <4>1. partials' = partials /\ missed' \in BOOLEAN /\ (~missed' => ~missed)
        BY <1>9, <3>4 DEF Draw, DrawFails
      <4> QED BY <2>1, <3>4, <4>1 DEF GhostInv, Procs
    <3> QED BY <1>9, <3>1, <3>2, <3>3, <3>4
  <2>4. TypeOK'
    BY <2>1, <2>2, <2>3
  <2>5. TmpInv' /\ DrawnWhole' /\ KeptWhole'
    BY <1>2, <2>1, <2>2 DEF TmpInv, Fetching, DrawnWhole, KeptWhole
  <2> QED BY <2>3, <2>4, <2>5
<1>10. ASSUME NEW p \in Procs, Publish(p) \/ NoPublish(p) PROVE PipeInv'
  <2> USE DEF PipeInv, TypeOK, Publish, NoPublish, Goto, files, display
  <2>1. TypeOK'
    <3>1. out # None => <<data[out][1], Missing>> \in Contents
      BY Parted
    <3>2. saver' \in Contents
      BY <1>10, <3>1
    <3>3. pc' \in [Procs -> {"idle", "open", "half", "check", "move", "draw", "publish", "copy"}]
      BY <1>10
    <3>4. UNCHANGED <<tmp, out, data, fd, served, screen, torn, partials, cycle, missed>>
      BY <1>10
    <3> QED BY <3>2, <3>3, <3>4
  <2>2. TmpInv' /\ DrawnWhole' /\ KeptWhole'
    BY <1>2, <1>10 DEF TmpInv, Fetching, DrawnWhole, KeptWhole
  <2>3. GhostInv'
    <3>1. /\ UNCHANGED <<cycle, partials, missed>> /\ pc[p] \notin BeforeDraw
          /\ pc'["loop"] \in BeforeDraw <=> pc["loop"] \in BeforeDraw
      BY <1>10 DEF BeforeDraw, Procs
    <3> QED BY <3>1 DEF GhostInv
  <2> QED BY <2>1, <2>2, <2>3
<1>11. ASSUME NEW p \in Procs, Copied(p) \/ CopyFails(p) PROVE PipeInv'
  <2> USE DEF PipeInv, TypeOK, Copied, CopyFails, Goto, files, display
  <2>1. out \in Inodes
    BY <1>11 DEF TmpInv
  <2>2. TypeOK'
    <3>1. saver' \in Contents /\ torn' \in BOOLEAN
      <4>1. saver' \in {data[out], saver} /\ torn' \in BOOLEAN
        BY <1>11
      <4>2. data[out] \in Contents /\ saver \in Contents
        BY <2>1
      <4> QED BY ONLY <4>1, <4>2
    <3>2. pc' \in [Procs -> {"idle", "open", "half", "check", "move", "draw", "publish", "copy"}]
      BY <1>11
    <3>3. UNCHANGED <<tmp, out, data, fd, served, screen, partials, cycle, missed>>
      BY <1>11
    <3> QED BY <3>1, <3>2, <3>3
  <2>3. TmpInv' /\ DrawnWhole' /\ KeptWhole'
    BY <1>2, <1>11, <2>1 DEF TmpInv, Fetching, DrawnWhole, KeptWhole
  <2>4. GhostInv'
    <3>1. /\ UNCHANGED <<cycle, partials, missed>> /\ pc[p] \notin BeforeDraw
          /\ pc'["loop"] \in BeforeDraw <=> pc["loop"] \in BeforeDraw
      BY <1>11 DEF BeforeDraw, Procs
    <3> QED BY <3>1 DEF GhostInv
  <2> QED BY <2>2, <2>3, <2>4
<1>12. ASSUME NEW p \in Procs, Crash(p) PROVE PipeInv'
  <2> USE DEF PipeInv, TypeOK, Crash, Goto, files
  <2>1. TypeOK'
    <3>1. torn' \in BOOLEAN /\ missed' \in BOOLEAN /\ cycle' \in 0..GhostEvery
      BY <1>12
    <3>2. /\ pc' \in [Procs -> {"idle", "open", "half", "check", "move", "draw", "publish", "copy"}]
          /\ fd' \in [Procs -> Inodes \cup {None}]
      BY <1>12
    <3>3. UNCHANGED <<tmp, out, data, served, screen, saver, partials>>
      BY <1>12
    <3> QED BY <3>1, <3>2, <3>3
  <2>2. TmpInv' /\ DrawnWhole' /\ KeptWhole'
    BY <1>2, <1>12 DEF TmpInv, Fetching, DrawnWhole, KeptWhole
  <2>3. GhostInv'
    <3>1. CASE p = "loop"
      <4>1. missed' /\ cycle' = 0
        BY <1>12, <3>1
      <4> QED BY <4>1 DEF GhostInv
    <3>2. CASE p # "loop"
      <4>1. UNCHANGED <<cycle, partials>> /\ (~missed' => ~missed) /\ pc'["loop"] = pc["loop"]
        BY <1>12, <3>2 DEF Procs
      <4> QED BY <4>1 DEF GhostInv
    <3> QED BY <3>1, <3>2
  <2> QED BY <2>1, <2>2, <2>3
<1> QED
  BY <1>1, <1>3, <1>4, <1>5, <1>6, <1>7, <1>8, <1>9, <1>10, <1>11, <1>12 DEF Next

LEMMA InvHolds == Spec => []PipeInv
BY InitInv, StepInv, PTL DEF Spec

\* Every variable of the pipeline keeps its type.
THEOREM TypeCorrect == Spec => []TypeOK
BY InvHolds, PTL DEF PipeInv

\* eips draws no half-written picture and no other file, whatever failed before it.
THEOREM OnlyWholeDrawn == Spec => []DrawnWhole
BY InvHolds, PTL DEF PipeInv

\* The kept picture is whole at every instant, for any crash to come upon; the
\* screensaver is, unless a copy to it was cut short.
THEOREM OnlyWholeKept == Spec => []KeptWhole
BY InvHolds, PTL DEF PipeInv

\* The daemon's own partial refreshes between two flashes are bounded by the period,
\* whatever that is; what refresh.sh draws in between is not counted.
THEOREM GhostsBounded == Spec => []GhostsCleared
<1>1. PipeInv => GhostsCleared
  BY DEF PipeInv, GhostInv, GhostsCleared
<1> QED BY <1>1, InvHolds, PTL
=============================================================================
