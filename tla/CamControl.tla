----------------------------- MODULE CamControl -----------------------------
(***************************************************************************)
(* The camera settings of the Raspicam tools (src/RaspiCamControl.c): the  *)
(* parameter block filled from the command line, the setters that send a   *)
(* setting to the camera component, and the demo that cycles through the   *)
(* settings, one step for each call of raspicamcontrol_cycle_test().       *)
(*                                                                         *)
(* The camera is external: a parameter set arrives, or is refused when it  *)
(* is one of "refused".  A mode is the index of its entry in the table of  *)
(* the source (entry 1 of exposure_map and awb_map is AUTO, entry 0 of     *)
(* imagefx_map is NONE), and what lies behind the end of a table is        *)
(* Garbage.                                                                *)
(***************************************************************************)
EXTENDS Integers, Sequences

CONSTANTS
  Refusals,        \* the sets of settings a camera may refuse
  Garbage          \* what a read behind a table returns

VARIABLES
  camera,          \* the settings in force in the camera component
  refused,         \* the settings this camera refuses
  parameter, parameter_option            \* the static variables of cycle_test

camvars == <<camera, refused, parameter, parameter_option>>

exposure_map_size == 13
awb_map_size      == 10
imagefx_map_size  == 20
parameter_reset   == -99999
AutoMode == 1
None     == 0

\* raspicamcontrol_set_defaults()
Defaults ==
  [saturation |-> 0, sharpness |-> 0, contrast |-> 0, brightness |-> 50, vstab |-> 0,
   ev |-> 0, exposure |-> AutoMode, metering |-> 0, awb |-> AutoMode, imagefx |-> None,
   colourfx |-> [enable |-> 0, u |-> 128, v |-> 128],
   rotation |-> 0, flips |-> [h |-> FALSE, v |-> FALSE]]

Settings == DOMAIN Defaults

ASSUME CamAssumption == Refusals \subseteq SUBSET Settings

CamInit ==
  /\ camera = Defaults                  \* what the firmware starts with
  /\ refused \in Refusals
  /\ parameter = 0
  /\ parameter_option = parameter_reset

-----------------------------------------------------------------------------
(* C's division and remainder, which round towards zero *)

Quo(a, b) == IF a < 0 THEN -((-a) \div b) ELSE a \div b
Rem(a, b) == a - b * Quo(a, b)

(* The setters.  The four numeric settings are checked against their       *)
(* range; a mode is sent as it is, an angle is rounded first.              *)

Range4 == [saturation |-> -100, sharpness |-> -100, contrast |-> -100, brightness |-> 0]

InRange(key, value) == key \in DOMAIN Range4 => Range4[key] <= value /\ value <= 100

QuarterTurn(angle) == Quo(Rem(angle, 360), 90) * 90

Sent(key, value) == IF key = "rotation" THEN QuarterTurn(value) ELSE value

\* The settings of a camera with settings cam after a set of key.
Set(cam, key, value) ==
  IF InRange(key, value) /\ key \notin refused
  THEN [cam EXCEPT ![key] = Sent(key, value)]
  ELSE cam

\* raspicamcontrol_set_all_parameters(): a setting that fails does not stop the others.
SetAll(cam, params) == [k \in Settings |-> Set(cam, k, params[k])[k]]

-----------------------------------------------------------------------------
(* raspicamcontrol_parse_cmdline(): the option arg1, with arg2 or NoToken  *)
(* after it.  A token is an option, a number, a mode, a pair u:v (its val  *)
(* is v) or a word; the result is the parameter block and how many tokens  *)
(* were used.                                                              *)

Number(tok) == tok.kind = "num"
NoToken     == [kind |-> "none", name |-> "", val |-> 0]

Numeric ==
  [sh |-> "sharpness", co |-> "contrast", br |-> "brightness", sa |-> "saturation",
   ev |-> "ev", rot |-> "rotation"]
Modes == [ex |-> "exposure", awb |-> "awb", ifx |-> "imagefx", mm |-> "metering"]
MapSize == [ex |-> exposure_map_size, awb |-> awb_map_size, ifx |-> imagefx_map_size,
            mm |-> 4]
MapDefault == [ex |-> AutoMode, awb |-> AutoMode, ifx |-> None, mm |-> 0]

\* A word the table does not have selects the default, with a message.
Xref(name, tok) ==
  IF tok.kind = "mode" /\ tok.val \in 0..(MapSize[name] - 1) THEN tok.val ELSE MapDefault[name]

CamParse(params, arg1, arg2) ==
  LET name  == arg1.name
      gets(key, value) == [params |-> [params EXCEPT ![key] = value], used |-> 2]
      flag(key, value) == [params |-> [params EXCEPT ![key] = value], used |-> 1]
      nothing == [params |-> params, used |-> 0]
  IN  CASE name \in DOMAIN Numeric ->
             IF arg2 = NoToken THEN nothing
             ELSE gets(Numeric[name],
                       IF Number(arg2) THEN arg2.val ELSE params[Numeric[name]])
        [] name \in DOMAIN Modes ->
             IF arg2 = NoToken THEN nothing ELSE gets(Modes[name], Xref(name, arg2))
        [] name = "ISO" ->             \* kept in the block and never sent to the camera
             IF arg2 = NoToken THEN nothing ELSE [params |-> params, used |-> 2]
        [] name = "cfx" ->             \* sscanf stores both numbers, u:v, in u
             IF arg2 = NoToken THEN nothing
             ELSE gets("colourfx",
                       [enable |-> 1,
                        u |-> IF arg2.kind \in {"num", "pair"} THEN arg2.val
                              ELSE params.colourfx.u,
                        v |-> params.colourfx.v])
        [] name = "vs" -> flag("vstab", 1)
        [] name = "hf" -> flag("flips", [params.flips EXCEPT !.h = TRUE])
        [] name = "vf" -> flag("flips", [params.flips EXCEPT !.v = TRUE])
        [] OTHER -> nothing

-----------------------------------------------------------------------------
(* The demo.  A state of it is [par, opt, cam]; each call makes one change *)
(* and some calls fall through from one parameter to the next.             *)

\* update_cycle_parameter(): the value that follows, or parameter_reset behind the last.
NextOption(opt, min, max, increment) ==
  LET o == (IF opt = parameter_reset THEN min - increment ELSE opt) + increment
  IN  IF o > max THEN parameter_reset ELSE o

\* Entry i of a table of the given size; without a table, size 0, the number itself.
Entry(size, i) == IF size = 0 \/ i \in 0..(size - 1) THEN i ELSE Garbage

\* The call that ends the cycle of a setting puts the setting back.
Ended(s, key, neutral) ==
  [par |-> s.par + 1, opt |-> parameter_reset, cam |-> Set(s.cam, key, neutral)]

\* One step of the cycle of a setting, through numbers or the entries of a table.
Cycled(s, key, min, max, inc, size, neutral) ==
  LET o == NextOption(s.opt, min, max, inc)
  IN  IF o = parameter_reset THEN Ended(s, key, neutral)
      ELSE [par |-> s.par, opt |-> o, cam |-> Set(s.cam, key, Entry(size, o))]

CycleNumbers(s) ==
  CASE s.par = 0 -> Cycled(s, "sharpness", -100, 100, 10, 0, 0)
    [] s.par = 1 -> Cycled(s, "contrast", -100, 100, 10, 0, 0)
    [] s.par = 2 -> Cycled(s, "brightness", 0, 100, 10, 0, 50)
    [] s.par = 3 -> Cycled(s, "saturation", -100, 100, 10, 0, 0)
    [] s.par = 4 -> Cycled(s, "ev", -10, 10, 4, 0, 0)
    [] s.par = 5 -> Cycled(s, "exposure", 0, exposure_map_size, 1, exposure_map_size, AutoMode)
    [] s.par = 6 -> Cycled(s, "awb", 0, awb_map_size, 1, awb_map_size, AutoMode)
    [] OTHER     -> s

CycleImageFx(s) ==
  IF s.par = 7 THEN Cycled(s, "imagefx", 0, imagefx_map_size, 1, imagefx_map_size, None) ELSE s

CycleColour(s) ==
  LET fx(u, v) == [enable |-> 0, u |-> u, v |-> v]
  IN  IF s.par # 8 THEN s
      ELSE IF s.opt = parameter_reset
      THEN [s EXCEPT !.opt = 1, !.cam = Set(s.cam, "colourfx", fx(128, 128))]
      ELSE IF s.opt = 1
      THEN [s EXCEPT !.opt = 2, !.cam = Set(s.cam, "colourfx", fx(100, 200))]
      ELSE [par |-> 9, opt |-> parameter_reset, cam |-> Set(s.cam, "colourfx", fx(0, 0))]

Flips == << <<TRUE, FALSE>>, <<FALSE, TRUE>>, <<TRUE, TRUE>>, <<FALSE, FALSE>> >>

CycleOrientation(s) ==
  LET mirror(cam, i) == Set(cam, "flips", [h |-> Flips[i][1], v |-> Flips[i][2]])
      turn(angle)    == Set(s.cam, "rotation", angle)
  IN  IF s.par # 9 THEN s
      ELSE IF s.opt = parameter_reset THEN [s EXCEPT !.opt = 1, !.cam = turn(90)]
      ELSE IF s.opt \in {1, 2} THEN [s EXCEPT !.opt = @ + 1, !.cam = turn(90 * (s.opt + 1))]
      ELSE IF s.opt = 3 THEN [s EXCEPT !.opt = 4, !.cam = mirror(turn(0), 1)]
      ELSE IF s.opt \in {4, 5} THEN [s EXCEPT !.opt = @ + 1, !.cam = mirror(@, s.opt - 2)]
      ELSE [par |-> 10, opt |-> parameter_reset, cam |-> mirror(s.cam, 4)]

\* raspicamcontrol_cycle_test(): after the last parameter it starts again at 1.
Wrapped(par) == IF par = 10 THEN 1 ELSE par

CycleTest ==
  \E s \in {CycleNumbers([par |-> parameter, opt |-> parameter_option, cam |-> camera])} :
  \E t \in {CycleImageFx(s)} : \E u \in {CycleColour(t)} : \E r \in {CycleOrientation(u)} :
    /\ camera' = r.cam
    /\ parameter' = Wrapped(r.par)
    /\ parameter_option' = r.opt
    /\ UNCHANGED refused

-----------------------------------------------------------------------------
(* Properties *)

CamTypeOK ==
  /\ DOMAIN camera = Settings
  /\ refused \subseteq Settings
  /\ parameter \in 0..9

\* The settings the demo shows as each parameter, and the value it leaves them with (the
\* colour effect is left disabled, with u = v = 0).
Demoed ==
  << {"sharpness"}, {"contrast"}, {"brightness"}, {"saturation"}, {"ev"}, {"exposure"},
     {"awb"}, {"imagefx"}, {"colourfx"}, {"rotation", "flips"} >>

Neutral(key) ==
  IF key = "colourfx" THEN camera[key].enable = 0 ELSE camera[key] = Defaults[key]

\* The demo changes one setting at a time: those it has gone past, in this round or in an
\* earlier one, and those it has not reached are neutral.  The fall-through from one
\* "if (parameter == n)" of cycle_test to the next neither skips the reset of a setting
\* nor starts one before the other has ended.
OneSettingAtATime ==
  \A key \in Settings \ refused : key \notin Demoed[parameter + 1] => Neutral(key)

\* "will be converted to 0,90,180 or 270 only" (comment of raspicamcontrol_set_rotation).
RotationIsQuarterTurn == camera.rotation \in {0, 90, 180, 270}

=============================================================================
