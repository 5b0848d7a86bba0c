----------------------------- MODULE CamICGame ------------------------------
(***************************************************************************)
(* The camera game (src/cam_IC_game.cpp): the buffer callback of the       *)
(* camera's video port copies each frame to memory, on a thread of MMAL,   *)
(* while the main loop uploads the last two frames as textures, runs the   *)
(* image alignment on the GPU, moves the cursor by the displacement it     *)
(* measured and lets the cursor hunt a square.                             *)
(*                                                                         *)
(* A frame in memory is its number in each of its halves, which memcpy and *)
(* glTexImage2D pass one after the other, with no lock between the two     *)
(* threads.  Of a texture the model keeps what it was computed from, and   *)
(* of the alignment that it gives some displacement.  Cursor and square    *)
(* are in half pixels: "width" counts the half pixels that move the cursor *)
(* by the 0.5 it may be away from the centre.                              *)
(* MMAL, OpenGL ES and the window system are external, as in CameraApps.   *)
(***************************************************************************)
EXTENDS Integers, FiniteSets

CONSTANTS
  Displacements,   \* pairs <<x, y>> the alignment may measure, or NaN
  NaN,
  HalfWidth, HalfHeight,                 \* 0.5 of the screen, in the unit of the cursor
  Reach,           \* half the side of the square
  Shifts,          \* where the square may appear
  Delta,           \* time between two turns of the main loop
  Gap,             \* userData->gap at the start
  Buffers, MaxFrames, MaxHits, MaxFaults \* bounds: frames that arrive, squares hit, failures

ASSUME GameAssumption ==
  /\ HalfWidth \in Nat \ {0} /\ HalfHeight \in Nat \ {0} /\ Reach \in Nat \ {0}
  /\ Displacements \ {NaN} \subseteq Int \X Int
  /\ Shifts \subseteq Int \X Int
  /\ Delta \in Nat /\ Gap \in Nat \ {0}
  /\ Buffers \in Nat /\ MaxFrames \in Nat /\ MaxHits \in Nat /\ MaxFaults \in Nat

Pixel == 2                               \* half pixels
Halves == {1, 2}

VARIABLES
  mpc, iter, tosend,                     \* main(), and its loops
  camera, preview,                       \* none, enabled, disabled or destroyed
  is_enabled, userdata, capturing,       \* the video port; the camera
  pool, at_port, lost,                   \* as in CameraApps
  cpc, frame,                            \* the buffer callback, and the frame it was called with
  nCount, imageData, tmpltData,          \* what the callback keeps
  texture,                               \* textures 0 to 5: what their content comes from
  uploaded,                              \* textures 7 (image) and 6 (template): frames, by half
  derived,                               \* what Hs[0], Hs[1] and sd_delta come from
  cursor,                                \* texImg.warp_p[2] and [5]
  truncates,                             \* abs() is the one of the integers in this build
  shift, change_color, totaltime, gap,   \* the square
  frames, hits, faults

setup   == <<camera, preview, userdata>>
buffers == <<pool, at_port, lost>>
memory  == <<nCount, imageData, tmpltData>>
gpu     == <<texture, uploaded, derived>>
square  == <<shift, change_color, totaltime, gap, hits>>
game    == <<cursor, truncates, square>>
flow    == <<is_enabled, capturing>>
cb      == <<cpc, frame, frames>>
gamevars == <<mpc, iter, tosend, setup, flow, buffers, cb, memory, gpu, game, faults>>

Stale == {"stale"}
Blank == [h \in Halves |-> 0]

GameInit ==
  /\ mpc = "init" /\ iter = 0 /\ tosend = 0
  /\ camera = "none" /\ preview = "none"
  /\ is_enabled = FALSE /\ userdata = FALSE /\ capturing = FALSE
  /\ pool = -1 /\ at_port = 0 /\ lost = 0
  /\ cpc = "idle" /\ frame = 0
  /\ nCount = 0 /\ imageData = Blank /\ tmpltData = Blank
  /\ texture = [t \in 0..5 |-> Stale]
  /\ uploaded = [t \in {6, 7} |-> Blank]
  /\ derived = [Hs0 |-> Stale, Hs1 |-> Stale, sd |-> Stale]
  /\ cursor = <<0, 0>> /\ truncates \in BOOLEAN
  /\ shift = <<HalfWidth, HalfHeight>> /\ change_color = FALSE
  /\ totaltime = 0 /\ gap = Gap
  /\ frames = 0 /\ hits = 0 /\ faults = 0

Finished == {"exit", "end", "returned", "done", "crashed", "killed"}
Running  == mpc \notin Finished
Fault    == faults < MaxFaults /\ faults' = faults + 1
Works    == UNCHANGED faults

-----------------------------------------------------------------------------
(* Start *)

\* A program that is missing a shader leaves the process.
InitProgram ==
  \/ mpc' = "camera" /\ Works
  \/ mpc' = "exit" /\ Fault

\* Init() of the game: six programs, their textures and frame buffers.
InitGL ==
  /\ mpc = "init"
  /\ InitProgram
  /\ UNCHANGED <<iter, tosend, setup, flow, buffers, cb, memory, gpu, game>>

\* The video port is enabled before there is a pool for it or userdata for its callback.
\* When a later step fails the camera is destroyed, and its port disabled with it.
CreateCamera ==
  /\ mpc = "camera"
  /\ \/ /\ camera' = "enabled" /\ is_enabled' = TRUE
        /\ \/ pool' = Buffers /\ Works
           \/ pool' = -1 /\ Fault
        /\ mpc' = "preview"
     \/ /\ camera' \in {"none", "destroyed"} /\ Fault
        /\ mpc' = "end"
        /\ UNCHANGED <<is_enabled, pool>>
  /\ UNCHANGED <<iter, tosend, preview, userdata, capturing, at_port, lost, cb, memory, gpu, game>>

CreatePreview ==
  /\ mpc = "preview"
  /\ \/ preview' = "enabled" /\ mpc' = "capture" /\ userdata' = TRUE /\ Works
        /\ UNCHANGED <<camera, is_enabled>>
     \/ /\ preview' \in {"none", "destroyed"} /\ mpc' = "end" /\ Fault
        /\ camera' = "destroyed" /\ is_enabled' = FALSE
        /\ UNCHANGED userdata
  /\ UNCHANGED <<iter, tosend, capturing, buffers, cb, memory, gpu, game>>

\* When the capture cannot be started main() returns at once.
Capture ==
  /\ mpc = "capture"
  /\ \/ capturing' = TRUE /\ mpc' = "length" /\ Works
     \/ UNCHANGED capturing /\ mpc' = "returned" /\ Fault
  /\ UNCHANGED <<iter, tosend, setup, is_enabled, buffers, cb, memory, gpu, game>>

QueueLength ==
  /\ mpc = "length"
  /\ IF pool = -1 THEN mpc' = "crashed" /\ UNCHANGED tosend     \* video_pool->queue
     ELSE mpc' = "send" /\ tosend' = pool
  /\ UNCHANGED <<iter, setup, flow, buffers, cb, memory, gpu, game, faults>>

SendFirst ==
  /\ mpc = "send"
  /\ IF tosend = 0 THEN mpc' = "loop" /\ UNCHANGED <<tosend, buffers>> /\ Works
     ELSE IF pool = 0 THEN mpc' = "crashed" /\ UNCHANGED <<tosend, buffers>> /\ Works
     ELSE /\ tosend' = tosend - 1 /\ pool' = pool - 1 /\ UNCHANGED mpc
          /\ \/ at_port' = at_port + 1 /\ UNCHANGED lost /\ Works
             \/ lost' = lost + 1 /\ UNCHANGED at_port /\ Fault
  /\ UNCHANGED <<iter, setup, flow, cb, memory, gpu, game>>

-----------------------------------------------------------------------------
(* esMainLoop(): until the user closes the window, textureUpdate() and     *)
(* then Draw().  The uploads run half by half.                             *)

Loop ==
  /\ mpc = "loop"
  /\ mpc' \in {"upload", "shutdown"}
  /\ iter' = 0
  /\ UNCHANGED <<tosend, setup, flow, buffers, cb, memory, gpu, game, faults>>

\* Mutant: the template is uploaded first.
UploadsTemplateFirst == << <<6, 1>>, <<6, 2>>, <<7, 1>>, <<7, 2>> >>

\* The order of the uploads: <<texture, half>>.
Uploads == << <<7, 1>>, <<7, 2>>, <<6, 1>>, <<6, 2>> >>

Upload ==
  LET u == Uploads[iter + 1]
  IN  /\ mpc = "upload"
      /\ uploaded' = [uploaded EXCEPT ![u[1]][u[2]] =
                        IF u[1] = 7 THEN imageData[u[2]] ELSE tmpltData[u[2]]]
      /\ IF iter = 3 THEN iter' = 0 /\ mpc' = "clock" ELSE iter' = iter + 1 /\ UNCHANGED mpc
      /\ texture' = [t \in 0..5 |-> Stale]
      /\ UNCHANGED <<tosend, setup, flow, buffers, cb, memory, derived, game, faults>>

\* The rest of textureUpdate(): a square that was hit gets a new colour, nine tenths of
\* the time it had and a new place; one whose time is over gets a new place.
AfterHit(time) == 0

\* Nine tenths, rounded to the nearest as a float is: it does not get to zero.
Shortened(time) == (time * 9 + 5) \div 10

Tick ==
  /\ mpc = "clock"
  /\ LET now == totaltime + Delta
     IN  \/ /\ change_color
            /\ change_color' = FALSE
            /\ totaltime' = AfterHit(now) /\ gap' = Shortened(gap)
            /\ shift' \in Shifts
         \/ /\ ~change_color /\ now >= gap
            /\ totaltime' = 0
            /\ shift' \in Shifts
            /\ UNCHANGED <<change_color, gap>>
         \/ /\ ~change_color /\ now < gap
            /\ totaltime' = now
            /\ UNCHANGED <<change_color, gap, shift>>
  /\ mpc' = "hessian"
  /\ UNCHANGED <<iter, tosend, setup, flow, buffers, cb, memory, gpu, cursor, truncates, hits,
                 faults>>

-----------------------------------------------------------------------------
(* The passes of Draw(): each renders into a texture what it computes from *)
(* others.  Content(t, i) is what texture i holds.                         *)

Content(tex, i) == CASE i = 7 -> {"image"} [] i = 6 -> {"template"} [] OTHER -> tex[i]

GradienImage(tex)  == [tex EXCEPT ![0] = Content(tex, 6)]
MultiplyImage(tex) == [tex EXCEPT ![2] = tex[0]]
WarpImage(tex)     == [tex EXCEPT ![1] = Content(tex, 7) \cup Content(tex, 6) \cup tex[0]]

\* IntegrateImage() into textures 3, 4 and 5 in turn, the first from source.
IntegrateImage(tex, source) == [tex EXCEPT ![3] = tex[source], ![4] = tex[source], ![5] = tex[source]]

\* Mutant: the second product is not integrated.
HessianPassesOnce(tex, flag) ==
  IF flag = 0 THEN IntegrateImage(MultiplyImage(tex), 2) ELSE [tex EXCEPT ![5] = tex[1]]

\* The two products of the gradients, summed and read back for the Hessian.
HessianPasses(tex, flag) == IntegrateImage(MultiplyImage(tex), 2)

\* hessian() sums up what was read back after each of the two.
Hessian(d, t0, t1) == [d EXCEPT !.Hs0 = t0[5], !.Hs1 = t1[5]]

DrawHessian ==
  /\ mpc = "hessian"
  /\ \E t0 \in {HessianPasses(GradienImage(texture), 0)} : \E t1 \in {HessianPasses(t0, 1)} :
       /\ texture' = t1
       /\ derived' = Hessian(derived, t0, t1)
  /\ mpc' = "align"
  /\ UNCHANGED <<iter, tosend, setup, flow, buffers, cb, memory, uploaded, game, faults>>

\* sd_update(): the steepest descent of what is read back corrects the displacement.
SdUpdate(d, t) == [d EXCEPT !.sd = t[5]]

\* Five times: warp, integrate, read back and correct.
Align ==
  /\ mpc = "align"
  /\ \E t \in {IntegrateImage(WarpImage(texture), 1)} :
       /\ texture' = t
       /\ derived' = SdUpdate(derived, t)
  /\ IF iter = 4 THEN iter' = 0 /\ mpc' = "cursor" ELSE iter' = iter + 1 /\ UNCHANGED mpc
  /\ UNCHANGED <<tosend, setup, flow, buffers, cb, memory, uploaded, game, faults>>

-----------------------------------------------------------------------------
(* DrawTriangle(): the cursor follows the displacement that was measured   *)
(* unless that takes it too far from the centre.                           *)

Dist(x) == IF x < 0 THEN -x ELSE x

\* abs(x) <= 0.5 and abs(x) > 0.5, in a build whose abs() drops the fraction.
Within(x, half) == Dist(x) < (IF truncates THEN 2 * half ELSE half + 1)
Beyond(x, half) == ~Within(x, half)

\* Mutant: outside only when it is so in both directions.
OutsideBoth(c) == Beyond(c[1], HalfWidth) /\ Beyond(c[2], HalfHeight)

Outside(c) == Beyond(c[1], HalfWidth) \/ Beyond(c[2], HalfHeight)

Moved(c, w) ==
  LET still == Dist(w[1]) < Pixel /\ Dist(w[2]) < Pixel
      near  == Within(c[1], HalfWidth) \/ Within(c[2], HalfHeight)
      moved == IF ~still /\ near THEN <<c[1] + w[1], c[2] + w[2]>> ELSE c
  IN  IF w = NaN THEN <<0, 0>>
      ELSE IF Outside(moved) THEN <<moved[1] - w[1], moved[2] - w[2]>> ELSE moved

InsideSquare(c) == Dist(c[1] - shift[1]) < Reach /\ Dist(c[2] - shift[2]) < Reach

DrawTriangle ==
  /\ mpc = "cursor"
  /\ \E w \in Displacements : cursor' = Moved(cursor, w)
  /\ IF InsideSquare(cursor')
     THEN hits < MaxHits /\ hits' = hits + 1 /\ change_color' = TRUE
     ELSE UNCHANGED <<hits, change_color>>
  /\ mpc' = "loop"
  /\ UNCHANGED <<iter, tosend, setup, flow, buffers, cb, memory, gpu, truncates, shift, totaltime,
                 gap, faults>>

-----------------------------------------------------------------------------
(* End.  ShutDown() frees what belongs to the drawing; the port is         *)
(* disabled by the destruction of the camera, and the pool stays.          *)

ShutDown ==
  /\ mpc = "shutdown"
  /\ mpc' = "free"
  /\ camera' = "disabled" /\ preview' = "destroyed"
  /\ UNCHANGED <<iter, tosend, userdata, flow, buffers, cb, memory, gpu, game, faults>>

DisablePort ==
  /\ mpc = "free" /\ is_enabled
  /\ is_enabled' = FALSE
  /\ UNCHANGED <<mpc, iter, tosend, setup, capturing, buffers, cb, memory, gpu, game, faults>>

Drained == at_port = 0 /\ cpc = "idle"

DestroyCamera ==
  /\ mpc = "free" /\ ~is_enabled /\ Drained
  /\ camera' = "destroyed"
  /\ mpc' = "done"
  /\ UNCHANGED <<iter, tosend, preview, userdata, flow, buffers, cb, memory, gpu, game, faults>>

Sigint ==
  /\ Running
  /\ mpc' = "killed"
  /\ UNCHANGED <<iter, tosend, setup, flow, buffers, cb, memory, gpu, game, faults>>

-----------------------------------------------------------------------------
(* video_buffer_callback() *)

ReturnBuffer(f) ==
  /\ Running /\ cpc = "idle" /\ at_port > 0
  /\ at_port' = at_port - 1
  /\ frame' = f /\ cpc' = "copy"
  /\ UNCHANGED <<mpc, iter, tosend, setup, flow, pool, lost, memory, gpu, game, faults>>

ReturnData  == capturing /\ frames < MaxFrames /\ frames' = frames + 1 /\ ReturnBuffer(frames + 1)
ReturnEmpty == ~is_enabled /\ UNCHANGED frames /\ ReturnBuffer(0)

\* The copies of the callback: the image becomes the template, the buffer the image; the
\* first frame becomes both.
Copies(first) ==
  IF first THEN << <<"tmplt", "new", 1>>, <<"tmplt", "new", 2>>, <<"image", "new", 1>>, <<"image", "new", 2>> >>
  ELSE << <<"tmplt", "image", 1>>, <<"tmplt", "image", 2>>, <<"image", "new", 1>>, <<"image", "new", 2>> >>

CopyStep == [copy |-> 1, copy2 |-> 2, copy3 |-> 3, copy4 |-> 4]
CopyNext == [copy |-> "copy2", copy2 |-> "copy3", copy3 |-> "copy4", copy4 |-> "release"]

Copy ==
  /\ Running /\ cpc \in DOMAIN CopyStep
  /\ IF frame = 0 THEN cpc' = "release" /\ UNCHANGED memory
     ELSE LET c == Copies(nCount = 0)[CopyStep[cpc]]
              from == IF c[2] = "new" THEN frame ELSE imageData[c[3]]
          IN  /\ IF c[1] = "tmplt"
                 THEN tmpltData' = [tmpltData EXCEPT ![c[3]] = from] /\ UNCHANGED imageData
                 ELSE imageData' = [imageData EXCEPT ![c[3]] = from] /\ UNCHANGED tmpltData
              /\ nCount' = IF cpc = "copy4" THEN nCount + 1 ELSE nCount
              /\ cpc' = CopyNext[cpc]
  /\ UNCHANGED <<mpc, iter, tosend, setup, flow, buffers, frame, frames, gpu, game, faults>>

ReleaseBuffer ==
  /\ Running /\ cpc = "release"
  /\ pool' = pool + 1
  /\ cpc' = IF is_enabled THEN "get" ELSE "idle"
  /\ UNCHANGED <<mpc, iter, tosend, setup, flow, at_port, lost, frame, frames, memory, gpu, game,
                 faults>>

GetBuffer ==
  /\ Running /\ cpc = "get"
  /\ IF pool > 0 THEN pool' = pool - 1 /\ cpc' = "send" ELSE UNCHANGED pool /\ cpc' = "idle"
  /\ UNCHANGED <<mpc, iter, tosend, setup, flow, at_port, lost, frame, frames, memory, gpu, game,
                 faults>>

Send ==
  /\ Running /\ cpc = "send"
  /\ \/ is_enabled /\ at_port' = at_port + 1 /\ UNCHANGED lost /\ Works
     \/ is_enabled /\ lost' = lost + 1 /\ UNCHANGED at_port /\ Fault
     \/ ~is_enabled /\ lost' = lost + 1 /\ UNCHANGED at_port /\ Works
  /\ cpc' = "idle"
  /\ UNCHANGED <<mpc, iter, tosend, setup, flow, pool, frame, frames, memory, gpu, game>>

-----------------------------------------------------------------------------
Main ==
  \/ InitGL \/ CreateCamera \/ CreatePreview \/ Capture \/ QueueLength \/ SendFirst
  \/ Loop \/ Upload \/ Tick \/ DrawHessian \/ Align \/ DrawTriangle
  \/ ShutDown \/ DisablePort \/ DestroyCamera

Callback == Copy \/ ReleaseBuffer \/ GetBuffer \/ Send

GameNext == Main \/ ReturnData \/ ReturnEmpty \/ Callback \/ Sigint

GameSpec == GameInit /\ [][GameNext]_gamevars

-----------------------------------------------------------------------------
(* Properties *)

GameTypeOK ==
  /\ pool \in -1..Buffers /\ at_port \in 0..Buffers /\ lost \in 0..Buffers
  /\ nCount \in 0..MaxFrames
  /\ imageData \in [Halves -> 0..MaxFrames] /\ tmpltData \in [Halves -> 0..MaxFrames]
  /\ gap \in Nat /\ totaltime \in Nat

\* The two frames that are aligned are at most one frame apart in the direction of time,
\* however the callback overtakes the uploads: the image is uploaded first, so its
\* template can be newer than it should be but never older.
MotionOfOneFrame ==
  mpc \in {"clock", "hessian", "align", "cursor"} =>
    \A h \in Halves : uploaded[6][h] >= uploaded[7][h] - 1

\* What the displacement is computed from comes from the two frames of this turn of the
\* loop: no pass reads a texture an earlier turn has left behind.
NothingStale ==
  mpc = "cursor" =>
    /\ derived.Hs0 = {"template"} /\ derived.Hs1 = {"template"}
    /\ derived.sd = {"image", "template"}

\* The cursor stays around the centre, whatever is measured: the test before the move and
\* the one that takes it back agree for every displacement and both meanings of abs().
CursorStays == Within(cursor[1], HalfWidth) /\ Within(cursor[2], HalfHeight)

\* A square is never on the screen for longer than its time, which a hit shortens while it
\* is running.
SquareInTime == totaltime < gap

\* The callback finds userdata whenever it is called, although its port is enabled before
\* there is any, and main() gets a header for each it counted in the pool while the
\* callback puts headers back into it and takes them out again.
CallbackReady ==
  /\ cpc # "idle" => userdata /\ pool # -1
  /\ mpc = "send" => pool >= tosend

\* The game is sound: no texture is stale when it is read, no square stays too long, and
\* the callback has what it needs.
GameInv == GameTypeOK /\ NothingStale /\ SquareInTime /\ CallbackReady
=============================================================================
