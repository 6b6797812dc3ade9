----------------------------- MODULE FrameLoop ------------------------------
(***************************************************************************)
(* The framework at work in examples/basic: app_param_manager_init boots   *)
(* it over the sensor IP module and the auto exposure module, then         *)
(* app_frame_handler reads a frame's settings, runs the auto exposure and  *)
(* writes the result back, while a host changes parameters between any two *)
(* of its calls.  A call on the framework is one step.                     *)
(*                                                                         *)
(* Of the sensor's parameters, exposure, gain and fps are here with their  *)
(* registers (resolution and roi_x go the way of fps), and cur_luma as     *)
(* what the handler reads; of the module's, target_luma and enable.  Speed *)
(* only scales a correction: a correction is any step up to MaxStep.       *)
(***************************************************************************)
EXTENDS Integers, FiniteSetsExt

CONSTANTS
  Budget,     \* 990000: exposure times frames per second
  GainTop,    \* 8.0: the gain from which exposure is corrected instead
  GainFloor,  \* bound: a gain below it counts as GainFloor
  MaxStep,    \* bound: the largest correction of one frame
  LumaSpan,   \* 256: target_luma goes into a uint8_t
  HostValues, \* HostValues[p]: what the host writes to p
  HostResets, \* what it resets with param_reset_one
  Stored,     \* Stored[p]: what the back end may hold for p
  Default,    \* Default[p]: default_val
  Undefined,  \* what converting a float that uint32_t cannot hold may give
  NoValue     \* the back end holds nothing; no exposure set by hand

Regs   == {"exposure", "gain", "fps"}
AeSet  == {"target", "enable"}
Params == Regs \cup AeSet \cup {"luma"}

ASSUME FrameAssumption ==
  /\ Budget \in Nat \ {0} /\ GainTop \in Nat \ {0} /\ MaxStep \in Nat \ {0}
  /\ GainFloor \in Int /\ GainFloor <= 0 /\ LumaSpan \in Nat \ {0}
  /\ DOMAIN HostValues \subseteq Params /\ HostResets \subseteq Params
  /\ DOMAIN Stored = (Regs \cup AeSet)
  /\ Default = [p \in Params |-> Default[p]]
  /\ Undefined \subseteq Nat /\ Undefined # {}
  /\ \A p \in {"exposure", "fps", "target"} :  \* uint32_t
       /\ Default[p] \in Nat /\ Stored[p] \subseteq Nat
       /\ p \in DOMAIN HostValues => HostValues[p] \subseteq Nat

VARIABLES
  at,      \* where the boot or the frame handler is
  cache,   \* cache[p]: the entry's cached value
  dirty,   \* sensor parameters the next flush sends
  hw,      \* hw[r]: the sensor's register image
  ae,      \* g_ae_instance: target_luma and enable
  frame,   \* the handler's in and out
  host,    \* the host still has something to do
  manual,  \* history: exposure the host set with the module off, before this frame
  quiet,   \* history: the host has done nothing since the frame began
  stray    \* history: entries whose cached value the framework has changed since
           \* it last told the driver or the algorithm

vars == <<at, cache, dirty, hw, ae, frame, host, manual, quiet, stray>>

NoFrame == [luma |-> 0, exposure |-> 0, gain |-> 0, fps |-> 1]

Init ==
  /\ at = "init"
  /\ cache = Default
  /\ dirty = {}
  /\ hw = [r \in Regs |-> 0]
  /\ ae = [target |-> 0, enable |-> 0]
  /\ frame = NoFrame
  /\ host = TRUE
  /\ manual = NoValue
  /\ quiet = FALSE
  /\ stray = {}

-----------------------------------------------------------------------------
(* Booting: app_param_manager_init. *)

\* A storage driver that fails to open ends the boot.
param_init ==
  /\ at = "init"
  /\ at' \in {"load", "closed"}
  /\ UNCHANGED <<cache, dirty, hw, ae, frame, host, manual, quiet, stray>>

\* Both modules registered; the LOAD phase of param_load_all.  An entry whose
\* load fails keeps its default; an IP entry that loads is dirty.
param_load_all ==
  /\ at = "load"
  /\ \E found \in SUBSET DOMAIN Stored :
       /\ \E v \in [found -> UNION {Stored[p] : p \in found}] :
            /\ \A p \in found : v[p] \in Stored[p]
            /\ cache' = [p \in Params |-> IF p \in found THEN v[p] ELSE cache[p]]
       /\ dirty' = dirty \cup (found \cap Regs)
  /\ at' = "sensor"
  /\ UNCHANGED <<hw, ae, frame, host, manual, quiet, stray>>

\* Fault: a register is not configured.
sensor_init_cb_short ==
  /\ at = "sensor"
  /\ hw' = [r \in Regs |-> IF r = "fps" THEN 0 ELSE cache[r]]
  /\ at' = "ae"
  /\ UNCHANGED <<cache, dirty, ae, frame, host, manual, quiet, stray>>

\* Registers cleared, then each given what param_read says.
sensor_init_cb ==
  /\ at = "sensor"
  /\ hw' = [r \in Regs |-> cache[r]]
  /\ at' = "ae"
  /\ UNCHANGED <<cache, dirty, ae, frame, host, manual, quiet, stray>>

\* ae_instance_set_target_luma((uint8_t)value), ae_instance_set_enable
Applied(old, p, v) == [old EXCEPT ![p] = IF p = "target" THEN v % LumaSpan ELSE v]

ae_init_cb ==
  /\ at = "ae"
  /\ ae' = Applied(Applied(ae, "target", cache["target"]),
                   "enable", cache["enable"])
  /\ at' = "validate"
  /\ UNCHANGED <<cache, dirty, hw, frame, host, manual, quiet, stray>>

\* pre_write_range of target_luma, 0 .. 255
Clamp(v) == IF v >= LumaSpan THEN LumaSpan - 1 ELSE v

\* param_set_range of an IP entry is refused; param_validate_all clamps the
\* cached target_luma, not the instance's.
param_validate_all ==
  /\ at = "validate"
  /\ cache' = [cache EXCEPT !["target"] = Clamp(@)]
  /\ stray' = IF cache'["target"] = cache["target"] THEN stray
              ELSE stray \cup {"target"}
  /\ at' = "boot_flush"
  /\ UNCHANGED <<dirty, hw, ae, frame, host, manual, quiet>>

\* The sensor's write callback refuses nothing, and ae_flush does nothing.
Flushed == [r \in Regs |-> IF r \in dirty THEN cache[r] ELSE hw[r]]

boot_flush ==
  /\ at = "boot_flush"
  /\ hw' = Flushed /\ dirty' = {}
  /\ quiet' = TRUE
  /\ at' = "luma"
  /\ UNCHANGED <<cache, ae, frame, host, manual, stray>>

-----------------------------------------------------------------------------
(* A frame: app_frame_handler and ae_instance_run. *)

AfterRead == [luma |-> "exposure", exposure |-> "gain", gain |-> "fps",
              fps |-> "run"]

frame_read(p) ==
  /\ at = p
  /\ frame' = [frame EXCEPT ![p] = cache[p]]
  /\ at' = AfterRead[p]
  /\ UNCHANGED <<cache, dirty, hw, ae, host, manual, quiet, stray>>

\* Fault: the module's switch is not looked at.
ae_test_luma_only ==
  /\ at = "run"
  /\ at' = IF frame.luma = 0 THEN "write_exposure" ELSE "adjust"
  /\ UNCHANGED <<cache, dirty, hw, ae, frame, host, manual, quiet, stray>>

\* if (!self->enable || in->current_luma == 0) the settings stay
ae_test ==
  /\ at = "run"
  /\ at' = IF ae.enable = 0 \/ frame.luma = 0 THEN "write_exposure" ELSE "adjust"
  /\ UNCHANGED <<cache, dirty, hw, ae, frame, host, manual, quiet, stray>>

\* The corrections error * speed can make, the instance read without a lock.
Corrections ==
  LET error == ae.target - frame.luma
  IN  IF error > 0 THEN 1 .. MaxStep
      ELSE IF error < 0 THEN -MaxStep .. -1 ELSE {0}

\* (uint32_t)(990000.0f / fps); of fps 0 the conversion is undefined.
Limits(fps) == IF fps = 0 THEN Undefined ELSE {Budget \div fps}

\* (uint32_t)(float): of a negative number the conversion is undefined.
ToUnsigned(x) == IF x < 0 THEN Undefined ELSE {x}

AtLeast(floor, x) == IF x < floor THEN floor ELSE x

\* Fault: exposure is limited only when it is what is corrected.
ae_instance_run_unlimited ==
  /\ at = "adjust"
  /\ \E adj \in Corrections, limit \in Limits(frame.fps) :
       IF frame.gain < GainTop
       THEN frame' = [frame EXCEPT !.gain = AtLeast(GainFloor, @ + adj)]
       ELSE \E x \in ToUnsigned(frame.exposure + adj) :
              frame' = [frame EXCEPT !.exposure = Min({x, limit})]
  /\ at' = "write_exposure"
  /\ UNCHANGED <<cache, dirty, hw, ae, host, manual, quiet, stray>>

\* Fault: gain is corrected whatever it is.
ae_instance_run_gain ==
  /\ at = "adjust"
  /\ \E adj \in Corrections, limit \in Limits(frame.fps) :
       frame' = [frame EXCEPT !.gain = AtLeast(GainFloor, @ + adj),
                              !.exposure = Min({@, limit})]
  /\ at' = "write_exposure"
  /\ UNCHANGED <<cache, dirty, hw, ae, host, manual, quiet, stray>>

\* Gain up to GainTop, exposure from there on, and exposure limited by fps.
ae_instance_run ==
  /\ at = "adjust"
  /\ \E adj \in Corrections, limit \in Limits(frame.fps) :
       IF frame.gain < GainTop
       THEN frame' = [frame EXCEPT !.gain = AtLeast(GainFloor, @ + adj),
                                   !.exposure = Min({@, limit})]
       ELSE \E x \in ToUnsigned(frame.exposure + adj) :
              frame' = [frame EXCEPT !.exposure = Min({x, limit})]
  /\ at' = "write_exposure"
  /\ UNCHANGED <<cache, dirty, hw, ae, host, manual, quiet, stray>>

\* Fault: a value that is cached already is not marked to be sent.
frame_write_unchanged(p, here, next) ==
  /\ at = here
  /\ cache' = [cache EXCEPT ![p] = frame[p]]
  /\ dirty' = IF frame[p] = cache[p] THEN dirty ELSE dirty \cup {p}
  /\ stray' = stray \ {p}
  /\ at' = next
  /\ UNCHANGED <<hw, ae, frame, host, manual, quiet>>

frame_write(p, here, next) ==
  /\ at = here
  /\ cache' = [cache EXCEPT ![p] = frame[p]]
  /\ dirty' = dirty \cup {p}
  /\ stray' = stray \ {p}
  /\ at' = next
  /\ UNCHANGED <<hw, ae, frame, host, manual, quiet>>

frame_flush ==
  /\ at = "flush"
  /\ hw' = Flushed /\ dirty' = {}
  /\ frame' = NoFrame
  /\ manual' = NoValue /\ quiet' = TRUE
  /\ at' = "luma"
  /\ UNCHANGED <<cache, ae, host, stray>>

\* A frame after a boot that failed: every call is refused.
frame_refused == at = "closed" /\ UNCHANGED vars

-----------------------------------------------------------------------------
(* The host, another task, while frames are handled. *)

Running == at \notin {"init", "load", "sensor", "ae", "validate", "boot_flush",
                      "closed"}
HostMay == host /\ Running

\* ip_param_write
host_write_sensor(p, v) ==
  /\ HostMay /\ p \notin AeSet
  /\ cache' = [cache EXCEPT ![p] = v]
  /\ dirty' = dirty \cup ({p} \cap Regs)
  /\ manual' = IF p # "exposure" THEN manual
               ELSE IF at = "luma" /\ ae.enable = 0 THEN v ELSE NoValue
  /\ quiet' = FALSE /\ stray' = stray \ {p}
  /\ UNCHANGED <<at, hw, ae, frame, host>>

\* app_write: clamp, ae_apply, then the cache.
host_write_ae(p, v) ==
  /\ HostMay /\ p \in AeSet
  /\ LET value == IF p = "target" THEN Clamp(v) ELSE v
     IN  /\ ae' = Applied(ae, p, value)
         /\ cache' = [cache EXCEPT ![p] = value]
  /\ manual' = IF p = "enable" /\ v # 0 THEN NoValue ELSE manual
  /\ quiet' = FALSE /\ stray' = stray \ {p}
  /\ UNCHANGED <<at, dirty, hw, frame, host>>

\* param_reset_one: the cache goes back to its default and nobody is told.
host_reset_one(p) ==
  /\ HostMay
  /\ cache' = [cache EXCEPT ![p] = Default[p]]
  /\ dirty' = dirty \ {p}
  /\ manual' = IF p = "exposure" THEN NoValue ELSE manual
  /\ quiet' = FALSE /\ stray' = stray \cup ({p} \cap (Regs \cup AeSet))
  /\ UNCHANGED <<at, hw, ae, frame, host>>

host_done ==
  /\ HostMay
  /\ host' = FALSE
  /\ UNCHANGED <<at, cache, dirty, hw, ae, frame, manual, quiet, stray>>

-----------------------------------------------------------------------------

Boot ==
  \/ param_init \/ param_load_all \/ sensor_init_cb \/ ae_init_cb
  \/ param_validate_all \/ boot_flush

Frame ==
  \/ \E p \in DOMAIN AfterRead : frame_read(p)
  \/ ae_test \/ ae_instance_run
  \/ frame_write("exposure", "write_exposure", "write_gain")
  \/ frame_write("gain", "write_gain", "flush")
  \/ frame_flush \/ frame_refused

Host ==
  \/ \E p \in DOMAIN HostValues : \E v \in HostValues[p] :
       host_write_sensor(p, v) \/ host_write_ae(p, v)
  \/ \E p \in HostResets : host_reset_one(p)
  \/ host_done

Next == Boot \/ Frame \/ Host

\* The boot runs to its end, and frames keep coming.
Spec == Init /\ [][Next]_vars /\ WF_vars(Boot \/ Frame)

-----------------------------------------------------------------------------
(* Properties. *)

\* From the end of the boot on, and between any two calls of host and handler, the
\* caches, the sensor and the algorithm do not drift apart: a sensor parameter is in
\* its register or waits for the next flush, and the algorithm works with the cached
\* settings, whatever was loaded, what failed to load and whatever the boot order
\* told them (example_usage.c:20, sensor_module.c:109).  Two calls leave a
\* parameter out of step until it is next written: param_reset_one tells nobody,
\* and a stored target above 255, which the algorithm was given mod 256, is
\* clamped by param_validate_all in the cache alone.
InStep ==
  Running =>
    \A p \in (Regs \cup AeSet) \ stray :
      /\ p \in Regs => p \in dirty \/ hw[p] = cache[p]
      /\ p \in AeSet => ae[p] = cache[p]

\* Gain does not run away upwards: the module stops raising it at GainTop,
\* however frames and host writes interleave (ae_instance.c:41).
GainBounded == hw["gain"] < GainTop + MaxStep

\* An exposure the host sets between two frames while the module is off is in
\* the sensor after the next frame, though the handler writes exposure back in
\* every frame (app_frame_handler.c:25).
ManualExposureKept ==
  [][at = "flush" /\ at' = "luma" /\ manual # NoValue
       => hw'["exposure"] = manual]_vars

\* No limit by frame rate when the rate is 0.
ExposureFits ==
  \/ cache["fps"] = 0
  \/ hw["exposure"] <= Budget \div cache["fps"]

\* A frame that the host leaves alone, with the module on and a scene that is
\* not black, leaves an exposure in the sensor that fits the frame rate, though
\* exposure is read before the rate it is limited by, and written back and sent
\* several calls later (app_frame_handler.c:15, ae_instance.c:49).
QuietFrameFits ==
  [][frame_flush /\ quiet /\ ae.enable # 0 /\ cache["luma"] # 0
       => ExposureFits']_vars

\* Once the host is done, the module is on and the scene is not black, the
\* exposure in the sensor fits the frame rate after a while and from then on,
\* whatever was loaded or written before (ae_instance.c:49).
ExposureSettles ==
  <>[](~host /\ ae.enable # 0 /\ cache["luma"] # 0) => <>[]ExposureFits
=============================================================================
