----------------------------- MODULE CameraApps -----------------------------
(***************************************************************************)
(* The Raspicam tools RaspiVid and RaspiStillYUV (src/RaspiVid.c,          *)
(* src/RaspiStillYUV.c, src/RaspiPreview.c, src/RaspiCLI.c) as clients of  *)
(* MMAL: main() parses the command line, creates and connects components,  *)
(* opens the output file, enables the port the data comes from (the data   *)
(* port: the encoder's output of RaspiVid, the camera's still port of      *)
(* RaspiStillYUV), sends it the buffers of a pool, waits, and tears        *)
(* everything down, while the buffer callback of the data port runs on a   *)
(* thread of MMAL.                                                         *)
(*                                                                         *)
(* MMAL and the firmware are external.  A call may fail, MaxFaults times.  *)
(* A port that is disabled gives every buffer back, in callbacks, before   *)
(* the call returns (MmalPort, MmalVcPort), and destroying a component     *)
(* disables its ports first.  Buffers are alike and are counted.           *)
(***************************************************************************)
EXTENDS CamControl, FiniteSets

CONSTANTS
  CommandLines,    \* the command lines a program is started with
  buffer_num,      \* buffers in the pool of the data port
  MaxFrames,       \* bound on the buffers that come back with data
  MaxFaults        \* bound on the calls that fail

Programs    == {"vid", "still"}
Components  == {"camera", "preview", "encoder"}
Connections == {"preview", "encoder"}

ASSUME AppsAssumption ==
  /\ buffer_num \in Nat \ {0} /\ MaxFrames \in Nat /\ MaxFaults \in Nat

VARIABLES
  prog, argv,      \* which program, and its command line
  argi, opts,      \* the token parsed next; what the command line asks for so far
  mpc,             \* main()
  comp,            \* each component: none, enabled, disabled or destroyed
  conn,            \* each connection pointer: null, live, or dangling once destroyed
  file,            \* none, open, stdout or closed
  complete_semaphore,    \* its value, or -1 when it does not exist
  is_enabled,      \* the data port
  capturing,       \* the camera was told to capture
  pool,            \* buffers in the queue of the pool, or -1 when there is no pool
  at_port, lost,   \* buffers with the port; buffers whose send failed
  tosend,          \* main: buffers it has still to send
  cpc, cbuf,       \* the buffer callback and its buffer: does it hold data, end a frame
  complete,        \* local of RaspiStillYUV's callback
  abort,           \* callback_data.abort of RaspiVid
  frames, faults   \* bounded: buffers that came back with data, calls that failed

setup    == <<comp, conn, file>>
buffers  == <<pool, at_port, lost>>
callbackvars == <<cpc, cbuf, complete, abort, frames>>
started  == <<prog, argv, argi>>
appsvars == <<started, opts, mpc, setup, complete_semaphore, is_enabled, capturing, buffers,
              tosend, callbackvars, faults, camvars>>

NoData == [data |-> FALSE, end |-> FALSE]

\* default_status() and raspipreview_set_defaults()
DefaultOpts ==
  [file |-> "none", timeout |-> 1, demo |-> FALSE, preview |-> TRUE, params |-> Defaults]

AppsInit ==
  /\ prog \in Programs /\ argv \in CommandLines
  /\ argi = 1 /\ opts = DefaultOpts
  /\ mpc = "parse"
  /\ comp = [c \in Components |-> "none"]
  /\ conn = [c \in Connections |-> "null"]
  /\ file = "none" /\ complete_semaphore = -1
  /\ is_enabled = FALSE /\ capturing = FALSE
  /\ pool = -1 /\ at_port = 0 /\ lost = 0 /\ tosend = 0
  /\ cpc = "idle" /\ cbuf = NoData /\ complete = FALSE /\ abort = FALSE
  /\ frames = 0 /\ faults = 0
  /\ CamInit

Finished == {"exit", "end", "done", "crashed", "killed"}
Running == mpc \notin Finished
Fault   == faults < MaxFaults /\ faults' = faults + 1
Works   == UNCHANGED faults

-----------------------------------------------------------------------------
(* The command line.  Each option has the number of parameters of its      *)
(* table (raspicli_get_command_id); an option that lacks its parameter     *)
(* because it is the last token is passed over.                            *)

OwnOptions ==
  [vid   |-> [help |-> 0, w |-> 1, h |-> 1, b |-> 1, o |-> 1, v |-> 0, t |-> 1, d |-> 1,
              fps |-> 1, e |-> 0, g |-> 1],
   still |-> [help |-> 0, w |-> 1, h |-> 1, o |-> 1, v |-> 0, t |-> 1]]

IsDash(tok) == tok.kind = "opt" \/ (tok.kind = "num" /\ tok.val < 0)
ArgAfter(args, i) == IF i < Len(args) THEN args[i + 1] ELSE NoToken

\* raspipreview_parse_cmdline(): an opacity that is no number uses no token.
PreviewParse(o, arg1, arg2) ==
  CASE arg1.name = "p" /\ arg2 # NoToken -> [opts |-> [o EXCEPT !.preview = TRUE], used |-> 2]
    [] arg1.name = "f" -> [opts |-> [o EXCEPT !.preview = TRUE], used |-> 1]
    [] arg1.name = "op" /\ arg2 # NoToken -> [opts |-> o, used |-> IF Number(arg2) THEN 2 ELSE 0]
    [] arg1.name = "n" -> [opts |-> [o EXCEPT !.preview = FALSE], used |-> 1]
    [] OTHER -> [opts |-> o, used |-> 0]

\* One option of the program itself: the options so far and the tokens used, 0 if invalid.
OwnParse(o, args, i) ==
  LET name == args[i].name
      arg  == ArgAfter(args, i)
  IN  CASE name \in {"w", "h", "b", "fps", "g"} ->
             [opts |-> o, used |-> IF Number(arg) THEN 2 ELSE 0]
        [] name = "t" -> IF Number(arg) THEN [opts |-> [o EXCEPT !.timeout = arg.val], used |-> 2]
                         ELSE [opts |-> o, used |-> 0]
        [] name = "o" -> IF arg.name = "" /\ ~Number(arg) THEN [opts |-> o, used |-> 0]
                         ELSE [opts |-> [o EXCEPT !.file = IF arg.name = "-" THEN "-" ELSE "named"],
                               used |-> 2]
        [] name = "d" -> IF IsDash(arg) THEN [opts |-> [o EXCEPT !.demo = TRUE], used |-> 1]
                         ELSE IF Number(arg) THEN [opts |-> [o EXCEPT !.demo = TRUE], used |-> 2]
                         ELSE [opts |-> o, used |-> 0]
        [] OTHER -> [opts |-> o, used |-> 1]                       \* -v and -e

OtherParse(o, args, i) ==
  LET arg == ArgAfter(args, i)
      cam == CamParse(o.params, args[i], arg)
  IN  IF cam.used > 0 THEN [opts |-> [o EXCEPT !.params = cam.params], used |-> cam.used]
      ELSE PreviewParse(o, args[i], arg)

\* One turn of the loop of parse_cmdline().
ParseOption ==
  LET tok  == argv[argi]
      own  == tok.name \in DOMAIN OwnOptions[prog]
      last == own /\ argi = Len(argv) /\ OwnOptions[prog][tok.name] > 0
  IN  /\ mpc = "parse" /\ argi <= Len(argv)
      /\ IF last /\ IsDash(tok) THEN argi' = argi + 1 /\ UNCHANGED <<opts, mpc>>
         ELSE IF ~IsDash(tok) \/ (own /\ tok.name = "help")
         THEN mpc' = "exit" /\ UNCHANGED <<opts, argi>>
         ELSE \E r \in {IF own THEN OwnParse(opts, argv, argi) ELSE OtherParse(opts, argv, argi)} :
                /\ opts' = r.opts
                /\ argi' = argi + r.used
                /\ mpc' = IF r.used = 0 THEN "exit" ELSE mpc
      /\ UNCHANGED <<prog, argv, setup, complete_semaphore, is_enabled, capturing, buffers,
                     tosend, callbackvars, faults, camvars>>

Parsed ==
  /\ mpc = "parse" /\ argi > Len(argv)
  /\ mpc' = IF argv = <<>> THEN "exit" ELSE "camera"
  /\ UNCHANGED <<started, opts, setup, complete_semaphore, is_enabled, capturing, buffers,
                 tosend, callbackvars, faults, camvars>>

-----------------------------------------------------------------------------
(* Creation.  A create function destroys what it made when a later step of *)
(* it fails; main() then destroys the components made before.  The pool    *)
(* comes last, and that there is none is only logged.                      *)

\* Mutant: only the first component is destroyed.
UnwoundFirst(cs) ==
  [c \in Components |-> IF c = "camera" /\ comp[c] # "none" THEN "destroyed" ELSE comp[c]]

Unwound(cs) == [c \in Components |-> IF c \in cs /\ comp[c] # "none" THEN "destroyed" ELSE comp[c]]

PoolMade == \/ pool' = buffer_num /\ Works
            \/ pool' = -1 /\ Fault

\* create() made the component, or failed before or after mmal_component_create().
CreateComponent(c, pooled, next) ==
  /\ mpc = c
  /\ \/ /\ comp' = [comp EXCEPT ![c] = "enabled"]
        /\ IF pooled THEN PoolMade ELSE (UNCHANGED pool /\ Works)
        /\ mpc' = next
     \/ /\ Fault
        /\ comp' \in {Unwound(Components), [Unwound(Components) EXCEPT ![c] = "destroyed"]}
        /\ mpc' = "end"
        /\ UNCHANGED pool
  /\ UNCHANGED <<started, opts, conn, file, complete_semaphore, is_enabled, capturing,
                 at_port, lost, tosend, callbackvars>>

CreateCamera ==
  /\ CreateComponent("camera", prog = "still", "preview")
  /\ camera' = IF mpc' = "preview" THEN SetAll(camera, opts.params) ELSE camera
  /\ UNCHANGED <<refused, parameter, parameter_option>>

CreatePreview ==
  /\ CreateComponent("preview", FALSE, IF prog = "vid" THEN "encoder" ELSE "connect_preview")
  /\ UNCHANGED camvars

CreateEncoder ==
  /\ CreateComponent("encoder", TRUE, "connect_preview")
  /\ UNCHANGED camvars

\* connect_ports(): the pointer is set as soon as the connection exists, and stays set
\* when enabling it fails and it is destroyed again.
ConnectPorts(c, ok, failed) ==
  \/ conn' = [conn EXCEPT ![c] = "live"] /\ Works /\ mpc' = ok
  \/ conn' \in {conn, [conn EXCEPT ![c] = "dangling"]} /\ Fault /\ mpc' = failed

AfterPreview == IF prog = "vid" THEN "connect_encoder" ELSE "open"

ConnectPreview ==
  /\ mpc = "connect_preview"
  /\ IF opts.preview THEN ConnectPorts("preview", AfterPreview, "error")
     ELSE mpc' = AfterPreview /\ UNCHANGED conn /\ Works
  /\ UNCHANGED <<started, opts, comp, file, complete_semaphore, is_enabled, capturing,
                 buffers, tosend, callbackvars, camvars>>

ConnectEncoder ==
  /\ mpc = "connect_encoder"
  /\ ConnectPorts("encoder", "open", "error")
  /\ UNCHANGED <<started, opts, comp, file, complete_semaphore, is_enabled, capturing,
                 buffers, tosend, callbackvars, camvars>>

\* A file that cannot be opened is only logged; RaspiStillYUV also makes its semaphore.
OpenFile ==
  /\ mpc = "open"
  /\ IF opts.file = "none" THEN file' = "none" /\ Works
     ELSE IF opts.file = "-" /\ prog = "vid" THEN file' = "stdout" /\ Works
     ELSE \/ file' = "open" /\ Works
          \/ file' = "none" /\ Fault
  /\ complete_semaphore' = IF prog = "still" THEN 0 ELSE complete_semaphore
  /\ mpc' = "enable"
  /\ UNCHANGED <<started, opts, comp, conn, is_enabled, capturing, buffers, tosend,
                 callbackvars, camvars>>

EnablePort ==
  /\ mpc = "enable"
  /\ \/ /\ is_enabled' = TRUE /\ Works
        /\ mpc' = IF prog = "still" THEN "length"
                  ELSE IF opts.demo THEN "demo"
                  ELSE IF file # "none" THEN "capture" ELSE "sleep"
     \/ UNCHANGED is_enabled /\ Fault /\ mpc' = "error"
  /\ UNCHANGED <<started, opts, setup, complete_semaphore, capturing, buffers, tosend,
                 callbackvars, camvars>>

-----------------------------------------------------------------------------
(* What the program is for *)

\* Demo mode of RaspiVid: timeout / demoInterval settings, or without end.
Demo ==
  /\ mpc = "demo"
  /\ CycleTest
  /\ UNCHANGED <<started, opts, mpc, setup, complete_semaphore, is_enabled, capturing,
                 buffers, tosend, callbackvars, faults>>

DemoEnds ==
  /\ mpc = "demo" /\ opts.timeout # 0
  /\ mpc' = "error"
  /\ UNCHANGED <<started, opts, setup, complete_semaphore, is_enabled, capturing, buffers,
                 tosend, callbackvars, faults, camvars>>

\* The number of buffers main() sends is the length of the queue when it starts.
BuffersToSend == pool

QueueLength ==
  /\ mpc = "length"
  /\ IF pool = -1 THEN mpc' = "crashed" /\ UNCHANGED tosend     \* encoder_pool->queue
     ELSE mpc' = "send" /\ tosend' = BuffersToSend
  /\ UNCHANGED <<started, opts, setup, complete_semaphore, is_enabled, capturing, buffers,
                 callbackvars, faults, camvars>>

SendFirst ==
  /\ mpc = "send"
  /\ IF tosend = 0
     THEN /\ mpc' = IF prog = "vid" THEN "wait" ELSE "sleep"
          /\ UNCHANGED <<buffers, tosend>> /\ Works
     ELSE IF pool = 0
     THEN mpc' = "crashed" /\ UNCHANGED <<buffers, tosend>> /\ Works   \* sends NULL
     ELSE /\ pool' = pool - 1 /\ tosend' = tosend - 1
          /\ UNCHANGED mpc
          /\ \/ at_port' = at_port + 1 /\ UNCHANGED lost /\ Works
             \/ lost' = lost + 1 /\ UNCHANGED at_port /\ Fault
  /\ UNCHANGED <<started, opts, setup, complete_semaphore, is_enabled, capturing,
                 callbackvars, camvars>>

\* A capture that cannot be started ends RaspiVid; RaspiStillYUV goes on without one.
Capture ==
  /\ mpc = "capture"
  /\ \/ /\ capturing' = TRUE /\ Works
        /\ mpc' = IF prog = "vid" THEN "length" ELSE "await"
     \/ /\ UNCHANGED capturing /\ Fault
        /\ mpc' = IF prog = "vid" THEN "error" ELSE "delete"
  /\ UNCHANGED <<started, opts, setup, complete_semaphore, is_enabled, buffers, tosend,
                 callbackvars, camvars>>

\* RaspiVid polls for an abort until the timeout, if there is one.
Wait ==
  /\ mpc = "wait"
  /\ abort \/ opts.timeout # 0
  /\ mpc' = "error"
  /\ UNCHANGED <<started, opts, setup, complete_semaphore, is_enabled, capturing, buffers,
                 tosend, callbackvars, faults, camvars>>

\* RaspiVid sleeps when there is no file to write, RaspiStillYUV before it captures.
Sleep ==
  /\ mpc = "sleep"
  /\ mpc' = CASE prog = "vid" /\ opts.timeout # 0 -> "error"
              [] prog = "vid" /\ opts.timeout = 0 -> "sleep"
              [] prog = "still" /\ file # "none" -> "capture"
              [] OTHER -> "delete"
  /\ UNCHANGED <<started, opts, setup, complete_semaphore, is_enabled, capturing, buffers,
                 tosend, callbackvars, faults, camvars>>

AwaitComplete ==
  /\ mpc = "await" /\ complete_semaphore > 0
  /\ complete_semaphore' = complete_semaphore - 1
  /\ mpc' = "delete"
  /\ UNCHANGED <<started, opts, setup, is_enabled, capturing, buffers, tosend, callbackvars,
                 faults, camvars>>

DeleteSemaphore ==
  /\ mpc = "delete"
  /\ complete_semaphore' = -1
  /\ mpc' = "error"
  /\ UNCHANGED <<started, opts, setup, is_enabled, capturing, buffers, tosend, callbackvars,
                 faults, camvars>>

-----------------------------------------------------------------------------
(* The end, at label "error" of main(): the steps of each program in their *)
(* order.  The port RaspiStillYUV disables is the video port, which it     *)
(* never enabled, so there the data port is disabled by the destruction of *)
(* the camera.                                                             *)

\* Mutant: the file is closed too early.
TeardownCloseFirst ==
  [vid   |-> <<"error", "close", "disable_port", "unconnect_preview", "unconnect_encoder",
               "disable", "free_encoder", "free_preview", "free_camera", "done">>,
   still |-> <<"error", "close", "disable_video", "unconnect_preview", "disable",
               "free_preview", "free_camera", "done">>]

Teardown ==
  [vid   |-> <<"error", "disable_port", "unconnect_preview", "unconnect_encoder", "close",
               "disable", "free_encoder", "free_preview", "free_camera", "done">>,
   still |-> <<"error", "close", "disable_video", "unconnect_preview", "disable",
               "free_preview", "free_camera", "done">>]

NextStep ==
  LET steps == Teardown[prog]
      here  == CHOOSE i \in 1..Len(steps) : steps[i] = mpc
  IN  mpc' = steps[here + 1]

\* check_disable_port(), and the ports in mmal_component_destroy(): the port refuses
\* buffers from then on, and the call returns when it has none left.
DisablePort ==
  /\ \/ mpc = "disable_port"
     \/ mpc = "free_camera" /\ prog = "still"
  /\ is_enabled
  /\ is_enabled' = FALSE
  /\ UNCHANGED <<started, opts, mpc, setup, complete_semaphore, capturing, buffers, tosend,
                 callbackvars, faults, camvars>>

PortDrained == ~is_enabled /\ at_port = 0 /\ cpc = "idle"

PortDisabled ==
  /\ mpc = "disable_port" /\ PortDrained
  /\ NextStep
  /\ UNCHANGED <<started, opts, setup, complete_semaphore, is_enabled, capturing, buffers,
                 tosend, callbackvars, faults, camvars>>

\* mmal_connection_destroy() reads the connection it is given, whatever the pointer is.
Unconnect(c) ==
  /\ mpc = (IF c = "preview" THEN "unconnect_preview" ELSE "unconnect_encoder")
  /\ IF c = "preview" /\ ~opts.preview THEN NextStep /\ UNCHANGED conn
     ELSE IF conn[c] = "live" THEN NextStep /\ conn' = [conn EXCEPT ![c] = "dangling"]
     ELSE mpc' = "crashed" /\ UNCHANGED conn
  /\ UNCHANGED <<started, opts, comp, file, complete_semaphore, is_enabled, capturing,
                 buffers, tosend, callbackvars, faults, camvars>>

CloseFile ==
  /\ mpc = "close"
  /\ NextStep
  /\ file' = IF file = "open" THEN "closed" ELSE file
  /\ UNCHANGED <<started, opts, comp, conn, complete_semaphore, is_enabled, capturing,
                 buffers, tosend, callbackvars, faults, camvars>>

\* "error" itself, and the check of the video port that is not enabled.
Pass ==
  /\ mpc \in {"error", "disable_video"}
  /\ NextStep
  /\ UNCHANGED <<started, opts, setup, complete_semaphore, is_enabled, capturing, buffers,
                 tosend, callbackvars, faults, camvars>>

DisableComponents ==
  /\ mpc = "disable"
  /\ NextStep
  /\ comp' = [c \in Components |-> IF comp[c] = "enabled" THEN "disabled" ELSE comp[c]]
  /\ UNCHANGED <<started, opts, conn, file, complete_semaphore, is_enabled, capturing,
                 buffers, tosend, callbackvars, faults, camvars>>

\* The encoder's pool is destroyed with the encoder; that of the stills is not.
FreeComponent(c) ==
  /\ mpc = (CASE c = "encoder" -> "free_encoder" [] c = "preview" -> "free_preview"
               [] OTHER -> "free_camera")
  /\ (c = "camera" /\ prog = "still") => PortDrained
  /\ NextStep
  /\ comp' = [comp EXCEPT ![c] = "destroyed"]
  /\ pool' = IF c = "encoder" THEN -1 ELSE pool
  /\ UNCHANGED <<started, opts, conn, file, complete_semaphore, is_enabled, capturing,
                 at_port, lost, tosend, callbackvars, faults, camvars>>

\* signal_handler(): exit, whatever main() and the callback were doing.
Sigint ==
  /\ Running
  /\ mpc' = "killed"
  /\ UNCHANGED <<started, opts, setup, complete_semaphore, is_enabled, capturing, buffers,
                 tosend, callbackvars, faults, camvars>>

-----------------------------------------------------------------------------
(* The firmware and the buffer callback of the data port, which MMAL calls *)
(* for one buffer at a time.                                               *)

\* A buffer comes back with data once the capture was started (the stills camera stops
\* with the end of the frame), or empty when the port is disabled.
Return(data, end) ==
  /\ Running /\ cpc = "idle" /\ at_port > 0
  /\ at_port' = at_port - 1
  /\ cbuf' = [data |-> data, end |-> end]
  /\ cpc' = "write"
  /\ complete' = FALSE
  /\ UNCHANGED <<started, opts, mpc, setup, complete_semaphore, is_enabled, pool, lost,
                 tosend, abort, faults, camvars>>

ReturnData ==
  \E end \in IF frames + 1 = MaxFrames /\ prog = "still" THEN {TRUE} ELSE BOOLEAN :
    /\ capturing /\ frames < MaxFrames
    /\ Return(TRUE, end)
    /\ frames' = frames + 1
    /\ capturing' = ~(end /\ prog = "still")

ReturnEmpty ==
  /\ ~is_enabled
  /\ Return(FALSE, FALSE)
  /\ UNCHANGED <<frames, capturing>>

\* A write that falls short aborts RaspiVid; for RaspiStillYUV it ends the capture, as the
\* last buffer of the frame does.
\* Mutant: the end of the frame does not complete it.
IsCompleteShort(short, end) == short

IsComplete(short, end) == short \/ end

Write ==
  /\ Running /\ cpc = "write"
  /\ \E short \in IF cbuf.data THEN BOOLEAN ELSE {FALSE} :
       /\ IF short THEN Fault ELSE Works
       /\ abort' = (abort \/ (short /\ prog = "vid"))
       /\ complete' = (prog = "still" /\ IsComplete(short, cbuf.end))
  /\ cpc' = "release"
  /\ UNCHANGED <<started, opts, mpc, setup, complete_semaphore, is_enabled, capturing,
                 buffers, tosend, cbuf, frames, camvars>>

\* The buffer goes back to the pool before another one is taken from it.
Release ==
  /\ Running /\ cpc = "release"
  /\ pool' = IF pool = -1 THEN -1 ELSE pool + 1
  /\ cpc' = IF is_enabled THEN "get" ELSE "post"
  /\ UNCHANGED <<started, opts, mpc, setup, complete_semaphore, is_enabled, capturing,
                 at_port, lost, tosend, cbuf, complete, abort, frames, faults, camvars>>

GetBuffer ==
  /\ Running /\ cpc = "get"
  /\ IF pool > 0 THEN pool' = pool - 1 /\ cpc' = "send" ELSE UNCHANGED pool /\ cpc' = "post"
  /\ UNCHANGED <<started, opts, mpc, setup, complete_semaphore, is_enabled, capturing,
                 at_port, lost, tosend, cbuf, complete, abort, frames, faults, camvars>>

\* A port that was disabled in the meantime, or that fails, leaves the buffer with nobody.
Send ==
  /\ Running /\ cpc = "send"
  /\ \/ is_enabled /\ at_port' = at_port + 1 /\ UNCHANGED lost /\ Works
     \/ is_enabled /\ lost' = lost + 1 /\ UNCHANGED at_port /\ Fault
     \/ ~is_enabled /\ lost' = lost + 1 /\ UNCHANGED at_port /\ Works
  /\ cpc' = "post"
  /\ UNCHANGED <<started, opts, mpc, setup, complete_semaphore, is_enabled, capturing, pool,
                 tosend, cbuf, complete, abort, frames, camvars>>

PostComplete ==
  /\ Running /\ cpc = "post"
  /\ complete_semaphore' = IF complete /\ complete_semaphore # -1 THEN complete_semaphore + 1
                           ELSE complete_semaphore
  /\ cpc' = "idle" /\ cbuf' = NoData /\ complete' = FALSE
  /\ UNCHANGED <<started, opts, mpc, setup, is_enabled, capturing, buffers, tosend, abort,
                 frames, faults, camvars>>

-----------------------------------------------------------------------------
Main ==
  \/ ParseOption \/ Parsed \/ CreateCamera \/ CreatePreview \/ CreateEncoder
  \/ ConnectPreview \/ ConnectEncoder \/ OpenFile \/ EnablePort
  \/ DemoEnds \/ QueueLength \/ SendFirst \/ Capture \/ Wait \/ Sleep
  \/ AwaitComplete \/ DeleteSemaphore
  \/ DisablePort \/ PortDisabled \/ Pass \/ CloseFile \/ DisableComponents
  \/ \E c \in Connections : Unconnect(c)
  \/ \E c \in Components : FreeComponent(c)

Firmware == ReturnData \/ ReturnEmpty
Callback == Write \/ Release \/ GetBuffer \/ Send \/ PostComplete

AppsNext == Main \/ Demo \/ Firmware \/ Callback \/ Sigint

\* main() and the callback are threads that run; the firmware returns the buffers of a
\* port that captures or that is being disabled.
AppsSpec ==
  /\ AppsInit /\ [][AppsNext]_appsvars
  /\ WF_appsvars(Main) /\ WF_appsvars(Firmware) /\ WF_appsvars(Callback)

-----------------------------------------------------------------------------
(* Properties *)

AppsTypeOK ==
  /\ comp \in [Components -> {"none", "enabled", "disabled", "destroyed"}]
  /\ conn \in [Connections -> {"null", "live", "dangling"}]
  /\ file \in {"none", "open", "stdout", "closed"}
  /\ pool \in -1..buffer_num /\ at_port \in 0..buffer_num /\ lost \in 0..buffer_num
  /\ complete_semaphore \in -1..MaxFrames
  /\ CamTypeOK

\* main() never sends a buffer it did not get: the callback, which runs while main() is
\* still sending, takes no more from the pool than it has put back, so the number of
\* buffers main() read before the loop is there.
SendsRealBuffers == mpc = "send" /\ tosend > 0 => pool >= tosend

\* "Can now close our file.  Note disabling ports may flush buffers which causes problems
\* if we have already closed the file!" (RaspiVid.c:1152): RaspiVid's callback writes to a
\* file that is open and uses a pool that exists, in every error path of main().
CallbackUsesLive ==
  prog = "vid" =>
    /\ cpc = "write" => file \in {"open", "stdout"}
    /\ cpc \in {"release", "get", "send"} => pool # -1

\* When main() returns, through its end or because a creation failed, every component it
\* made is destroyed once, no connection is left and no port of it is enabled.
Unwinds ==
  mpc \in {"done", "end"} =>
    /\ \A c \in Components : comp[c] \in {"none", "destroyed"}
    /\ \A c \in Connections : conn[c] # "live"
    /\ ~is_enabled /\ file # "open"

\* The demo shows one setting at a time and puts it back (OneSettingAtATime), for the
\* settings the user did not change.
DemoRestores ==
  mpc = "demo" /\ opts.params = Defaults => OneSettingAtATime

\* A program that is to end does: RaspiStillYUV is woken by the end of the frame or by the
\* failure of a write, disabling the data port returns, and the teardown goes through.
Endless  == prog = "vid" /\ opts.timeout = 0
Finishes == ~Endless ~> (~Running \/ Endless)

\* "Disable all our ports that are not handled by connections" (RaspiStillYUV.c:852): past
\* that, the buffer callback is no longer called.
PortsDisabled ==
  mpc \in {"unconnect_preview", "disable", "free_preview"} => ~is_enabled

\* The tools are sound: every path out of main() unwinds what it made, no header is sent
\* that was not there, and the demo puts every setting back.
AppsInv == AppsTypeOK /\ Unwinds /\ SendsRealBuffers /\ DemoRestores
=============================================================================
