-------------------------------- MODULE Faces --------------------------------
(***************************************************************************)
(* internal/render/fonts/fonts.go under concurrent requests.  Faces are    *)
(* cached per size and shared; the cache is guarded by faceMu, the faces   *)
(* are not.  To draw a glyph, font.Drawer asks the face for its mask,      *)
(* which an opentype face rasterises into a buffer of its own, and then    *)
(* copies the mask to the picture.                                         *)
(*                                                                         *)
(* A render is one picture being drawn, by the goroutine of its request;   *)
(* it draws the glyphs of Text one after the other.                        *)
(***************************************************************************)
EXTENDS Integers, Sequences

CONSTANTS
    Renders,        \* pictures drawn at the same time
    Sizes,          \* font sizes
    Text,           \* Text[i]: the size glyph i of a picture is drawn at
    Blank           \* a buffer nothing was rasterised into

VARIABLES
    faces,          \* sizes with a face in the cache
    mask,           \* mask[size]: what the buffer of that face holds
    pc,
    drawn           \* drawn[r]: the glyphs in picture r

vars == <<faces, mask, pc, drawn>>

Init ==
    /\ faces = {}
    /\ mask = [s \in Sizes |-> Blank]
    /\ pc = [r \in Renders |-> "face"]
    /\ drawn = [r \in Renders |-> <<>>]
-----------------------------------------------------------------------------
Goto(r, at) == pc' = [pc EXCEPT ![r] = at]
Current(r) == Len(drawn[r]) + 1
Size(r) == Text[Current(r)]

\* fonts.Face: under faceMu, the face of a size, made on its first use.
Face(r) ==
    /\ pc[r] = "face"
    /\ faces' = faces \cup {Size(r)}
    /\ mask' = [mask EXCEPT ![Size(r)] = IF Size(r) \in faces THEN @ ELSE Blank]
    /\ Goto(r, "glyph")
    /\ UNCHANGED drawn

\* Face.Glyph: the glyph is rasterised into the buffer of the face, without a lock.
\* Two at once may mix their glyphs too; that one overwrites the other is enough.
Glyph(r) ==
    /\ pc[r] = "glyph"
    /\ mask' = [mask EXCEPT ![Size(r)] = <<r, Current(r)>>]
    /\ Goto(r, "copy")
    /\ UNCHANGED <<faces, drawn>>

\* DrawMask: what the buffer holds is copied to the picture.
DrawMask(r) ==
    /\ pc[r] = "copy"
    /\ drawn' = [drawn EXCEPT ![r] = Append(@, mask[Size(r)])]
    /\ Goto(r, IF Current(r) = Len(Text) THEN "done" ELSE "face")
    /\ UNCHANGED <<faces, mask>>

Next == \E r \in Renders : Face(r) \/ Glyph(r) \/ DrawMask(r)

Spec == Init /\ [][Next]_vars
-----------------------------------------------------------------------------
\* What guarding the buffers by faceMu is for: each picture holds the glyphs its own
\* render asked for, however many are drawn at the same time.
OwnGlyphs == \A r \in Renders : \A i \in DOMAIN drawn[r] : drawn[r][i] = <<r, i>>
=============================================================================
