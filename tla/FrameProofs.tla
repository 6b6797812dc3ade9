----------------------------- MODULE FrameProofs ----------------------------
(***************************************************************************)
(* Boot and frame loop, for any budget, gains, steps, stored values and    *)
(* host: that caches, sensor and algorithm stay in step, how far gain      *)
(* rises, which exposure survives the handler's writing back and that it   *)
(* fits the frame rate after a frame.  That it settles there is a liveness *)
(* property and stays with TLC.                                            *)
(***************************************************************************)
EXTENDS FrameLoop, TLAPS

FrameFields == {"luma", "exposure", "gain", "fps"}

\* Caches, registers and records have their fields, whatever they hold.
Shape ==
  /\ cache = [p \in Params |-> cache[p]]
  /\ hw = [r \in Regs |-> hw[r]]
  /\ ae = [p \in AeSet |-> ae[p]]
  /\ frame = [x \in FrameFields |-> frame[x]]
  /\ dirty \subseteq Regs

RegsInStep == \A p \in Regs \ stray : p \in dirty \/ hw[p] = cache[p]
AeInStep == \A p \in AeSet \ stray : ae[p] = cache[p]

\* How far the boot has brought sensor and algorithm into step, and that they
\* stay there.
StepInv ==
  /\ at \in {"init", "load", "sensor", "ae", "validate"} => stray = {}
  /\ at \in {"ae", "validate", "boot_flush"} => \A r \in Regs : hw[r] = cache[r]
  /\ at = "validate" => /\ ae["target"] = cache["target"] % LumaSpan
                        /\ ae["enable"] = cache["enable"]
  /\ at = "boot_flush" \/ Running => AeInStep
  /\ Running => RegsInStep

\* The gains a boot or the host brings in.
GainsInRange ==
  \A g \in {Default["gain"]} \cup Stored["gain"]
             \cup (IF "gain" \in DOMAIN HostValues THEN HostValues["gain"] ELSE {}) :
    g \in Int /\ g < GainTop + MaxStep

InRange(g) == g \in Int /\ g < GainTop + MaxStep

GainInv == InRange(cache["gain"]) /\ InRange(hw["gain"]) /\ InRange(frame["gain"])

\* An exposure set by hand is in the cache, to be flushed, with the module off;
\* and once the handler has read it, it is what the handler writes back.
ManualInv ==
  manual # NoValue =>
    /\ Running /\ at # "adjust" /\ ae["enable"] = 0
    /\ cache["exposure"] = manual /\ "exposure" \in dirty
    /\ at \in {"gain", "fps", "run", "write_exposure"} => frame["exposure"] = manual

-----------------------------------------------------------------------------
(* Shapes. *)

LEMMA CacheSet ==
  ASSUME Shape, NEW p \in Params, NEW v, cache' = [cache EXCEPT ![p] = v]
  PROVE  cache' = [q \in Params |-> IF q = p THEN v ELSE cache[q]]
BY DEF Shape

LEMMA FrameSet ==
  ASSUME Shape, NEW x \in FrameFields, NEW v, frame' = [frame EXCEPT ![x] = v]
  PROVE  frame' = [y \in FrameFields |-> IF y = x THEN v ELSE frame[y]]
BY DEF Shape

LEMMA Sent ==
  ASSUME Shape, hw' = Flushed
  PROVE  hw' = [r \in Regs |-> IF r \in dirty THEN cache[r] ELSE hw[r]]
BY DEF Flushed

LEMMA AeSetTo ==
  ASSUME NEW old, old = [p \in AeSet |-> old[p]], NEW p \in AeSet, NEW v
  PROVE  /\ Applied(old, p, v) = [q \in AeSet |-> Applied(old, p, v)[q]]
         /\ p = "target" => /\ Applied(old, p, v)["target"] = v % LumaSpan
                            /\ Applied(old, p, v)["enable"] = old["enable"]
         /\ p = "enable" => /\ Applied(old, p, v)["target"] = old["target"]
                            /\ Applied(old, p, v)["enable"] = v
BY DEF Applied, AeSet

LEMMA AeInit ==
  ASSUME Shape, ae_init_cb
  PROVE  /\ ae' = [p \in AeSet |-> ae'[p]]
         /\ ae'["target"] = cache["target"] % LumaSpan
         /\ ae'["enable"] = cache["enable"]
<1> DEFINE mid == Applied(ae, "target", cache["target"])
<1>1. "target" \in AeSet /\ "enable" \in AeSet
  BY DEF AeSet
<1>2. ae = [p \in AeSet |-> ae[p]]
  BY DEF Shape
<1>3. /\ mid = [p \in AeSet |-> mid[p]]
      /\ mid["target"] = cache["target"] % LumaSpan
  BY <1>1, <1>2, AeSetTo
<1>4. ae' = Applied(mid, "enable", cache["enable"])
  BY DEF ae_init_cb
<1> HIDE DEF mid
<1> QED BY <1>1, <1>3, <1>4, AeSetTo

\* What ae_instance_run may make of a frame.
LEMMA FrameAdjusted ==
  ASSUME Shape, ae_instance_run
  PROVE  /\ frame' = [x \in FrameFields |-> frame'[x]]
         /\ \/ frame'["gain"] = frame["gain"]
            \/ /\ frame["gain"] < GainTop
               /\ \E adj \in Corrections :
                    frame'["gain"] = AtLeast(GainFloor, frame["gain"] + adj)
<1>1. PICK adj \in Corrections, limit \in Limits(frame.fps) :
        IF frame.gain < GainTop
        THEN frame' = [frame EXCEPT !.gain = AtLeast(GainFloor, @ + adj),
                                    !.exposure = Min({@, limit})]
        ELSE \E x \in ToUnsigned(frame.exposure + adj) :
               frame' = [frame EXCEPT !.exposure = Min({x, limit})]
  BY DEF ae_instance_run
<1>2. CASE frame.gain < GainTop
  <2> DEFINE g == AtLeast(GainFloor, frame.gain + adj)
             e == Min({frame.exposure, limit})
  <2>1. frame' = [frame EXCEPT !.gain = g, !.exposure = e]
    BY <1>1, <1>2
  <2> HIDE DEF g, e
  <2>2. frame' = [x \in FrameFields |-> frame'[x]] /\ frame'["gain"] = g
    BY <2>1 DEF Shape, FrameFields
  <2> QED BY <1>2, <2>2 DEF g
<1>3. CASE ~ (frame.gain < GainTop)
  <2>1. PICK x \in ToUnsigned(frame.exposure + adj) :
          frame' = [frame EXCEPT !.exposure = Min({x, limit})]
    BY <1>1, <1>3
  <2> DEFINE e == Min({x, limit})
  <2>2. frame' = [frame EXCEPT !.exposure = e]
    BY <2>1
  <2> HIDE DEF e
  <2> QED BY <2>2 DEF Shape, FrameFields
<1> QED BY <1>2, <1>3

LEMMA ShapeStep == Shape /\ [Next]_vars => Shape'
<1> SUFFICES ASSUME Shape, [Next]_vars PROVE Shape'
  OBVIOUS
<1> USE DEF Shape
<1>0. "exposure" \in Params /\ "gain" \in Params /\ "target" \in Params
      /\ AeSet \subseteq Params /\ Regs \subseteq Params
  BY DEF Params, Regs, AeSet
<1>1. CASE Boot
  <2>1. CASE param_init
    BY <2>1 DEF param_init
  <2>2. CASE param_load_all
    BY <2>2 DEF param_load_all
  <2>3. CASE sensor_init_cb
    BY <2>3 DEF sensor_init_cb
  <2>4. CASE ae_init_cb
    BY <2>4, AeInit DEF ae_init_cb
  <2>5. CASE param_validate_all
    BY <2>5 DEF param_validate_all
  <2>6. CASE boot_flush
    BY <2>6, Sent DEF boot_flush
  <2> QED BY <1>1, <2>1, <2>2, <2>3, <2>4, <2>5, <2>6 DEF Boot
<1>2. CASE Frame
  <2>1. ASSUME NEW p \in DOMAIN AfterRead, frame_read(p) PROVE Shape'
    BY <2>1 DEF frame_read
  <2>2. CASE ae_test
    BY <2>2 DEF ae_test
  <2>3. CASE ae_instance_run
    BY <2>3, FrameAdjusted DEF ae_instance_run
  <2>4. ASSUME NEW p \in {"exposure", "gain"}, NEW here, NEW next,
               frame_write(p, here, next)
        PROVE  Shape'
    BY <2>4 DEF frame_write, Regs
  <2>5. CASE frame_flush
    <3>1. NoFrame = [x \in FrameFields |-> NoFrame[x]]
      BY DEF NoFrame, FrameFields
    <3> QED BY <2>5, <3>1, Sent DEF frame_flush
  <2>6. CASE frame_refused
    BY <2>6 DEF frame_refused, vars
  <2> QED BY <1>2, <2>1, <2>2, <2>3, <2>4, <2>5, <2>6 DEF Frame
<1>3. CASE Host
  <2>1. ASSUME NEW p, NEW v, host_write_sensor(p, v) PROVE Shape'
    BY <2>1 DEF host_write_sensor
  <2>2. ASSUME NEW p, NEW v, host_write_ae(p, v) PROVE Shape'
    <3> DEFINE value == IF p = "target" THEN Clamp(v) ELSE v
    <3>1. /\ p \in AeSet /\ ae' = Applied(ae, p, value)
          /\ cache' = [cache EXCEPT ![p] = value]
          /\ UNCHANGED <<dirty, hw, frame>>
      BY <2>2 DEF host_write_ae
    <3> HIDE DEF value
    <3> QED BY <3>1, AeSetTo
  <2>3. ASSUME NEW p, host_reset_one(p) PROVE Shape'
    BY <2>3 DEF host_reset_one
  <2>4. CASE host_done
    BY <2>4 DEF host_done
  <2> QED BY <1>3, <2>1, <2>2, <2>3, <2>4 DEF Host
<1>4. CASE UNCHANGED vars
  BY <1>4 DEF vars
<1> QED BY <1>1, <1>2, <1>3, <1>4 DEF Next

LEMMA ShapeStart == Init => Shape
<1> SUFFICES ASSUME Init PROVE Shape
  OBVIOUS
<1>1. Default = [p \in Params |-> Default[p]]
  BY FrameAssumption
<1>2. NoFrame = [x \in FrameFields |-> NoFrame[x]]
  BY DEF NoFrame, FrameFields
<1>3. [target |-> 0, enable |-> 0]
        = [p \in AeSet |-> [target |-> 0, enable |-> 0][p]]
  BY DEF AeSet
<1> QED BY <1>1, <1>2, <1>3 DEF Init, Shape

-----------------------------------------------------------------------------
(* In step. *)

\* A value in 0 .. 255 goes into a uint8_t as it is.
LEMMA FitsByte ==
  ASSUME NEW v \in Nat, v < LumaSpan
  PROVE  v % LumaSpan = v
BY FrameAssumption

LEMMA ClampedFits ==
  ASSUME NEW v \in Nat
  PROVE  Clamp(v) \in Nat /\ Clamp(v) < LumaSpan
BY FrameAssumption DEF Clamp

LEMMA TargetStep ==
  Shape /\ cache["target"] \in Nat /\ [Next]_vars => cache'["target"] \in Nat
<1> SUFFICES ASSUME Shape, cache["target"] \in Nat, [Next]_vars
             PROVE  cache'["target"] \in Nat
  OBVIOUS
<1>0. /\ "target" \in Params /\ "target" \in AeSet /\ AeSet \subseteq Params
      /\ {"exposure", "gain"} \subseteq Params /\ "target" \in DOMAIN Stored
      /\ "target" \notin {"exposure", "gain"}
  BY FrameAssumption DEF Params, Regs, AeSet
<1>1. CASE param_load_all
  <2>1. PICK found \in SUBSET DOMAIN Stored :
          \E v \in [found -> UNION {Stored[p] : p \in found}] :
            /\ \A p \in found : v[p] \in Stored[p]
            /\ cache' = [p \in Params |-> IF p \in found THEN v[p] ELSE cache[p]]
    BY <1>1 DEF param_load_all
  <2>2. PICK v \in [found -> UNION {Stored[p] : p \in found}] :
            /\ \A p \in found : v[p] \in Stored[p]
            /\ cache' = [p \in Params |-> IF p \in found THEN v[p] ELSE cache[p]]
    BY <2>1
  <2>3. Stored["target"] \subseteq Nat
    BY FrameAssumption
  <2> QED BY <1>0, <2>2, <2>3
<1>2. CASE param_validate_all
  BY <1>0, <1>2, CacheSet, ClampedFits DEF param_validate_all
<1>3. ASSUME NEW p \in {"exposure", "gain"}, NEW here, NEW next,
             frame_write(p, here, next)
      PROVE  cache'["target"] \in Nat
  <2>1. cache' = [q \in Params |-> IF q = p THEN frame[p] ELSE cache[q]]
    BY <1>0, <1>3, CacheSet DEF frame_write
  <2> QED BY <1>0, <2>1
<1>4. ASSUME NEW p \in DOMAIN HostValues, NEW v \in HostValues[p],
             host_write_sensor(p, v)
      PROVE  cache'["target"] \in Nat
  <2>1. p \in Params /\ p # "target"
    BY <1>0, <1>4, FrameAssumption DEF host_write_sensor
  <2>2. cache' = [q \in Params |-> IF q = p THEN v ELSE cache[q]]
    BY <1>4, <2>1, CacheSet DEF host_write_sensor
  <2> QED BY <1>0, <2>1, <2>2
<1>5. ASSUME NEW p \in DOMAIN HostValues, NEW v \in HostValues[p],
             host_write_ae(p, v)
      PROVE  cache'["target"] \in Nat
  <2> DEFINE value == IF p = "target" THEN Clamp(v) ELSE v
  <2>1. p \in AeSet /\ cache' = [cache EXCEPT ![p] = value]
    BY <1>5 DEF host_write_ae
  <2>2. p = "target" => v \in Nat
    BY FrameAssumption
  <2>3. p = "target" => value \in Nat
    BY <2>2, ClampedFits
  <2> HIDE DEF value
  <2>4. p \in Params
    BY <1>0, <2>1
  <2>5. cache' = [q \in Params |-> IF q = p THEN value ELSE cache[q]]
    BY <2>1, <2>4, CacheSet
  <2> QED BY <1>0, <2>3, <2>5
<1>6. ASSUME NEW p \in HostResets, host_reset_one(p)
      PROVE  cache'["target"] \in Nat
  <2>1. p \in Params /\ Default["target"] \in Nat
    BY FrameAssumption
  <2>2. cache' = [q \in Params |-> IF q = p THEN Default[p] ELSE cache[q]]
    BY <1>6, <2>1, CacheSet DEF host_reset_one
  <2> QED BY <1>0, <2>1, <2>2
<1>7. CASE cache' = cache
  BY <1>7
<1>8. CASE Boot
  BY <1>1, <1>2, <1>7, <1>8
     DEF Boot, param_init, sensor_init_cb, ae_init_cb, boot_flush
<1>9. CASE Frame
  BY <1>3, <1>7, <1>9 DEF Frame, frame_read, ae_test, ae_instance_run,
                          frame_flush, frame_refused, vars
<1>10. CASE Host
  BY <1>4, <1>5, <1>6, <1>7, <1>10 DEF Host, host_done
<1> QED BY <1>7, <1>8, <1>9, <1>10 DEF Next, vars

LEMMA StepInvStep ==
  Shape /\ cache["target"] \in Nat /\ StepInv /\ [Next]_vars => StepInv'
<1> SUFFICES ASSUME Shape, cache["target"] \in Nat, StepInv, [Next]_vars
             PROVE  StepInv'
  OBVIOUS
<1>0. /\ "target" \in AeSet /\ "enable" \in AeSet /\ AeSet = {"target", "enable"}
      /\ AeSet \subseteq Params /\ Regs \subseteq Params
      /\ AeSet \cap Regs = {} /\ {"exposure", "gain"} \subseteq Regs
  BY DEF Params, Regs, AeSet
<1>1. CASE Boot
  <2>1. CASE param_init
    BY <2>1 DEF param_init, StepInv, Running
  <2>2. CASE param_load_all
    BY <2>2 DEF param_load_all, StepInv, Running
  <2>3. CASE sensor_init_cb
    BY <2>3 DEF sensor_init_cb, StepInv, Running
  <2>4. CASE ae_init_cb
    <3>1. /\ at = "ae" /\ at' = "validate" /\ cache' = cache /\ hw' = hw
          /\ stray' = stray
      BY <2>4 DEF ae_init_cb
    <3> QED BY <2>4, <3>1, AeInit DEF StepInv, Running
  <2>5. CASE param_validate_all
    <3>1. /\ at = "validate" /\ at' = "boot_flush" /\ hw' = hw /\ ae' = ae
          /\ cache' = [cache EXCEPT !["target"] = Clamp(cache["target"])]
          /\ stray' = IF cache'["target"] = cache["target"] THEN stray
                      ELSE stray \cup {"target"}
      BY <2>5 DEF param_validate_all
    <3>2. cache' = [q \in Params |-> IF q = "target" THEN Clamp(cache["target"])
                                     ELSE cache[q]]
      BY <1>0, <3>1, CacheSet
    <3>3. \A r \in Regs : hw'[r] = cache'[r]
      BY <1>0, <3>1, <3>2 DEF StepInv
    <3>4. "target" \notin stray' => ae'["target"] = cache'["target"]
      BY <1>0, <3>1, <3>2, FitsByte, ClampedFits DEF StepInv
    <3>5. ae'["enable"] = cache'["enable"]
      BY <1>0, <3>1, <3>2 DEF StepInv
    <3> QED BY <1>0, <3>1, <3>3, <3>4, <3>5 DEF StepInv, AeInStep, Running
  <2>6. CASE boot_flush
    <3>1. /\ at = "boot_flush" /\ at' = "luma" /\ UNCHANGED <<cache, ae, stray>>
          /\ hw' = Flushed
      BY <2>6 DEF boot_flush
    <3>2. \A r \in Regs : hw'[r] = cache'[r]
      BY <3>1, Sent DEF StepInv
    <3> QED BY <3>1, <3>2 DEF StepInv, AeInStep, RegsInStep, Running
  <2> QED BY <1>1, <2>1, <2>2, <2>3, <2>4, <2>5, <2>6 DEF Boot
<1>2. CASE at = "closed" /\ at' = "closed"
  BY <1>2 DEF StepInv, Running
<1>3. ASSUME Running, Running', AeInStep', RegsInStep'
      PROVE  StepInv'
  BY <1>3 DEF StepInv, Running
<1>4. Running => AeInStep /\ RegsInStep
  BY DEF StepInv
<1>5. CASE Frame
  <2>1. ASSUME Running, Running', UNCHANGED <<cache, dirty, hw, ae, stray>>
        PROVE  StepInv'
    BY <1>3, <1>4, <2>1 DEF AeInStep, RegsInStep
  <2>2. ASSUME NEW p \in DOMAIN AfterRead, frame_read(p) PROVE StepInv'
    BY <2>1, <2>2 DEF frame_read, AfterRead, Running
  <2>3. CASE ae_test
    BY <2>1, <2>3 DEF ae_test, Running
  <2>4. CASE ae_instance_run
    BY <2>1, <2>4 DEF ae_instance_run, Running
  <2>5. ASSUME NEW p \in {"exposure", "gain"}, NEW here, NEW next,
               Running, Running', frame_write(p, here, next)
        PROVE  StepInv'
    <3>1. /\ cache' = [q \in Params |-> IF q = p THEN frame[p] ELSE cache[q]]
          /\ dirty' = dirty \cup {p} /\ stray' = stray \ {p}
          /\ hw' = hw /\ ae' = ae
      BY <1>0, <2>5, CacheSet DEF frame_write
    <3>2. AeInStep' /\ RegsInStep'
      BY <1>0, <1>4, <2>5, <3>1 DEF AeInStep, RegsInStep
    <3> QED BY <1>3, <2>5, <3>2
  <2>6. CASE frame_write("exposure", "write_exposure", "write_gain")
    <3>1. at = "write_exposure" /\ at' = "write_gain"
      BY <2>6 DEF frame_write
    <3> QED BY <2>5, <2>6, <3>1 DEF Running
  <2>7. CASE frame_write("gain", "write_gain", "flush")
    <3>1. at = "write_gain" /\ at' = "flush"
      BY <2>7 DEF frame_write
    <3> QED BY <2>5, <2>7, <3>1 DEF Running
  <2>8. CASE frame_flush
    <3>1. /\ at = "flush" /\ at' = "luma" /\ UNCHANGED <<cache, ae, stray>>
          /\ hw' = [r \in Regs |-> IF r \in dirty THEN cache[r] ELSE hw[r]]
      BY <2>8, Sent DEF frame_flush
    <3>2. AeInStep' /\ RegsInStep'
      BY <1>4, <3>1 DEF AeInStep, RegsInStep, Running
    <3> QED BY <1>3, <3>1, <3>2 DEF Running
  <2>9. CASE frame_refused
    BY <1>2, <2>9 DEF frame_refused, vars
  <2> QED BY <1>5, <2>2, <2>3, <2>4, <2>6, <2>7, <2>8, <2>9 DEF Frame
<1>6. CASE Host
  <2>1. Running /\ at' = at
    BY <1>6 DEF Host, HostMay, host_write_sensor, host_write_ae, host_reset_one,
                host_done
  <2>2. Running'
    BY <2>1 DEF Running
  <2>3. ASSUME NEW p \in DOMAIN HostValues, NEW v \in HostValues[p],
               host_write_sensor(p, v)
        PROVE  AeInStep' /\ RegsInStep'
    <3>1. /\ p \notin AeSet /\ dirty' = dirty \cup ({p} \cap Regs)
          /\ stray' = stray \ {p} /\ hw' = hw /\ ae' = ae
      BY <2>3 DEF host_write_sensor
    <3>2. p \in Params
      BY FrameAssumption
    <3>3. cache' = [q \in Params |-> IF q = p THEN v ELSE cache[q]]
      BY <2>3, <3>2, CacheSet DEF host_write_sensor
    <3> QED BY <1>0, <1>4, <2>1, <3>1, <3>3 DEF AeInStep, RegsInStep
  <2>4. ASSUME NEW p \in DOMAIN HostValues, NEW v \in HostValues[p],
               host_write_ae(p, v)
        PROVE  AeInStep' /\ RegsInStep'
    <3> DEFINE value == IF p = "target" THEN Clamp(v) ELSE v
    <3>1. /\ p \in AeSet /\ cache' = [cache EXCEPT ![p] = value]
          /\ ae' = Applied(ae, p, value)
          /\ stray' = stray \ {p} /\ hw' = hw /\ dirty' = dirty
      BY <2>4 DEF host_write_ae
    <3>2. p = "target" => v \in Nat
      BY FrameAssumption
    <3>3. p = "target" => value % LumaSpan = value
      BY <3>2, ClampedFits, FitsByte
    <3> HIDE DEF value
    <3>4. cache' = [q \in Params |-> IF q = p THEN value ELSE cache[q]]
      BY <1>0, <3>1, CacheSet
    <3>5. ae = [q \in AeSet |-> ae[q]]
      BY DEF Shape
    <3>6. \A q \in AeSet : ae'[q] = IF q = p THEN value ELSE ae[q]
      BY <1>0, <3>1, <3>3, <3>5, AeSetTo
    <3>7. AeInStep'
      BY <1>0, <1>4, <2>1, <3>1, <3>4, <3>6 DEF AeInStep
    <3>8. RegsInStep'
      BY <1>0, <1>4, <2>1, <3>1, <3>4 DEF RegsInStep
    <3> QED BY <3>7, <3>8
  <2>5. ASSUME NEW p \in HostResets, host_reset_one(p)
        PROVE  AeInStep' /\ RegsInStep'
    <3>1. /\ dirty' = dirty \ {p} /\ hw' = hw /\ ae' = ae
          /\ stray' = stray \cup ({p} \cap (Regs \cup AeSet))
      BY <2>5 DEF host_reset_one
    <3>2. p \in Params
      BY FrameAssumption
    <3>3. cache' = [q \in Params |-> IF q = p THEN Default[p] ELSE cache[q]]
      BY <2>5, <3>2, CacheSet DEF host_reset_one
    <3> QED BY <1>0, <1>4, <2>1, <3>1, <3>3 DEF AeInStep, RegsInStep
  <2>6. ASSUME host_done PROVE AeInStep' /\ RegsInStep'
    BY <1>4, <2>1, <2>6 DEF host_done, AeInStep, RegsInStep
  <2>7. AeInStep' /\ RegsInStep'
    BY <1>6, <2>3, <2>4, <2>5, <2>6 DEF Host
  <2> QED BY <1>3, <2>1, <2>2, <2>7
<1>7. CASE UNCHANGED vars
  BY <1>7 DEF vars, StepInv, Running, AeInStep, RegsInStep
<1> QED BY <1>1, <1>5, <1>6, <1>7 DEF Next

\* Whatever is stored, loads or fails, whatever defaults there are and however the
\* host comes across the handler's calls: a sensor parameter is in its register or
\* waits for the next flush, and the algorithm works with the cached settings, but
\* for the entries that param_reset_one or the clamp of a stored target above 255
\* has changed in the cache alone and nobody has written since
\* (app_param_manager_init, app_frame_handler).
THEOREM KeepsInStep == Spec => []InStep
<1> DEFINE Inv == cache["target"] \in Nat /\ StepInv
<1>1. Init => Inv
  BY FrameAssumption DEF Init, StepInv, Running
<1>2. Shape /\ Inv /\ [Next]_vars => Inv'
  BY TargetStep, StepInvStep
<1>3. Inv => InStep
  <2>1. Regs \cap AeSet = {}
    BY DEF Regs, AeSet
  <2> QED BY <2>1 DEF StepInv, AeInStep, RegsInStep, InStep
<1> HIDE DEF Inv
<1> QED BY <1>1, <1>2, <1>3, ShapeStart, ShapeStep, PTL DEF Spec

-----------------------------------------------------------------------------
(* The gain. *)

LEMMA AdjustedInRange ==
  ASSUME NEW g \in Int, g < GainTop, NEW adj \in Corrections
  PROVE  InRange(AtLeast(GainFloor, g + adj))
<1>1. /\ GainTop \in Nat \ {0} /\ MaxStep \in Nat \ {0}
      /\ GainFloor \in Int /\ GainFloor <= 0
  BY FrameAssumption
<1>2. adj \in Int /\ adj <= MaxStep
  BY <1>1 DEF Corrections
<1> QED BY <1>1, <1>2 DEF AtLeast, InRange

LEMMA GainStep ==
  ASSUME GainsInRange, Shape, GainInv, [Next]_vars
  PROVE  GainInv'
<1>0. /\ "gain" \in Params /\ "gain" \in Regs /\ "gain" \in FrameFields
      /\ "exposure" \in Params /\ "target" \in Params
      /\ AeSet \subseteq Params /\ "gain" \notin AeSet
  BY DEF Params, Regs, AeSet, FrameFields
<1>1. InRange(cache["gain"]) /\ InRange(hw["gain"]) /\ InRange(frame["gain"])
  BY DEF GainInv
<1>2. CASE Boot
  <2>1. CASE param_init
    BY <1>1, <2>1 DEF param_init, GainInv
  <2>2. CASE param_load_all
    <3>1. PICK found \in SUBSET DOMAIN Stored :
            \E v \in [found -> UNION {Stored[p] : p \in found}] :
              /\ \A p \in found : v[p] \in Stored[p]
              /\ cache' = [p \in Params |-> IF p \in found THEN v[p] ELSE cache[p]]
      BY <2>2 DEF param_load_all
    <3>2. PICK v \in [found -> UNION {Stored[p] : p \in found}] :
              /\ \A p \in found : v[p] \in Stored[p]
              /\ cache' = [p \in Params |-> IF p \in found THEN v[p] ELSE cache[p]]
      BY <3>1
    <3>3. InRange(cache'["gain"])
      BY <1>0, <1>1, <3>2 DEF GainsInRange, InRange
    <3> QED BY <1>1, <2>2, <3>3 DEF param_load_all, GainInv
  <2>3. CASE sensor_init_cb
    BY <1>0, <1>1, <2>3 DEF sensor_init_cb, GainInv
  <2>4. CASE ae_init_cb
    BY <1>1, <2>4 DEF ae_init_cb, GainInv
  <2>5. CASE param_validate_all
    BY <1>0, <1>1, <2>5 DEF param_validate_all, GainInv, Shape
  <2>6. CASE boot_flush
    BY <1>0, <1>1, <2>6, Sent DEF boot_flush, GainInv
  <2> QED BY <1>2, <2>1, <2>2, <2>3, <2>4, <2>5, <2>6 DEF Boot
<1>3. CASE Frame
  <2>1. ASSUME NEW p \in DOMAIN AfterRead, frame_read(p) PROVE GainInv'
    <3>1. p \in FrameFields
      BY DEF AfterRead, FrameFields
    <3>2. frame'["gain"] \in {frame["gain"], cache["gain"]}
      BY <1>0, <2>1, <3>1, FrameSet DEF frame_read
    <3> QED BY <1>1, <2>1, <3>2 DEF frame_read, GainInv
  <2>2. CASE ae_test
    BY <1>1, <2>2 DEF ae_test, GainInv
  <2>3. CASE ae_instance_run
    <3>1. InRange(frame'["gain"])
      BY <1>1, <2>3, FrameAdjusted, AdjustedInRange DEF InRange
    <3> QED BY <1>1, <2>3, <3>1 DEF ae_instance_run, GainInv
  <2>4. ASSUME NEW p \in {"exposure", "gain"}, NEW here, NEW next,
               frame_write(p, here, next)
        PROVE  GainInv'
    <3>1. cache'["gain"] \in {cache["gain"], frame["gain"]}
      BY <1>0, <2>4, CacheSet DEF frame_write
    <3> QED BY <1>1, <2>4, <3>1 DEF frame_write, GainInv
  <2>5. CASE frame_flush
    <3>1. InRange(NoFrame["gain"])
      BY FrameAssumption DEF NoFrame, InRange
    <3>2. InRange(hw'["gain"])
      BY <1>0, <1>1, <2>5, Sent DEF frame_flush
    <3> QED BY <1>1, <2>5, <3>1, <3>2 DEF frame_flush, GainInv
  <2>6. CASE frame_refused
    BY <1>1, <2>6 DEF frame_refused, vars, GainInv
  <2> QED BY <1>3, <2>1, <2>2, <2>3, <2>4, <2>5, <2>6 DEF Frame
<1>4. CASE Host
  <2>1. ASSUME NEW p \in DOMAIN HostValues, NEW v \in HostValues[p],
               host_write_sensor(p, v)
        PROVE  GainInv'
    <3>1. p \in Params
      BY FrameAssumption
    <3>2. cache' = [q \in Params |-> IF q = p THEN v ELSE cache[q]]
      BY <2>1, <3>1, CacheSet DEF host_write_sensor
    <3>3. InRange(cache'["gain"])
      BY <1>0, <1>1, <3>2 DEF GainsInRange, InRange
    <3> QED BY <1>1, <2>1, <3>3 DEF host_write_sensor, GainInv
  <2>2. ASSUME NEW p, NEW v, host_write_ae(p, v) PROVE GainInv'
    <3> DEFINE value == IF p = "target" THEN Clamp(v) ELSE v
    <3>1. /\ p \in AeSet /\ cache' = [cache EXCEPT ![p] = value]
          /\ UNCHANGED <<hw, frame>>
      BY <2>2 DEF host_write_ae
    <3> HIDE DEF value
    <3>2. p \in Params /\ p # "gain"
      BY <1>0, <3>1
    <3>3. cache'["gain"] = cache["gain"]
      BY <1>0, <3>1, <3>2, CacheSet
    <3> QED BY <1>1, <3>1, <3>3 DEF GainInv
  <2>3. ASSUME NEW p \in HostResets, host_reset_one(p) PROVE GainInv'
    <3>1. p \in Params
      BY FrameAssumption
    <3>2. cache' = [q \in Params |-> IF q = p THEN Default[p] ELSE cache[q]]
      BY <2>3, <3>1, CacheSet DEF host_reset_one
    <3>3. InRange(cache'["gain"])
      BY <1>0, <1>1, <3>2 DEF GainsInRange, InRange
    <3> QED BY <1>1, <2>3, <3>3 DEF host_reset_one, GainInv
  <2>4. CASE host_done
    BY <1>1, <2>4 DEF host_done, GainInv
  <2> QED BY <1>4, <2>1, <2>2, <2>3, <2>4 DEF Host
<1>5. CASE UNCHANGED vars
  BY <1>1, <1>5 DEF vars, GainInv
<1> QED BY <1>2, <1>3, <1>4, <1>5 DEF Next

\* When neither the back end nor the host brings in a gain beyond it, the gain in
\* the sensor stays below GainTop + MaxStep (ae_instance_run).
THEOREM GainStaysBounded == GainsInRange => (Spec => []GainBounded)
<1> SUFFICES ASSUME GainsInRange PROVE Spec => []GainBounded
  OBVIOUS
<1>1. Init => GainInv
  <2> SUFFICES ASSUME Init PROVE GainInv
    OBVIOUS
  <2>1. InRange(0)
    BY FrameAssumption DEF InRange
  <2>2. InRange(Default["gain"])
    BY DEF GainsInRange, InRange
  <2> QED BY <2>1, <2>2 DEF Init, GainInv, NoFrame, Regs
<1>2. GainInv => GainBounded
  BY DEF GainInv, InRange, GainBounded
<1>3. Shape /\ GainInv /\ [Next]_vars => GainInv'
  BY GainStep
<1> QED BY <1>1, <1>2, <1>3, ShapeStart, ShapeStep, PTL DEF Spec

-----------------------------------------------------------------------------
(* Exposure by hand. *)

LEMMA ManualStep == Shape /\ ManualInv /\ [Next]_vars => ManualInv'
<1> SUFFICES ASSUME Shape, ManualInv, [Next]_vars, manual' # NoValue
             PROVE  /\ Running' /\ at' # "adjust" /\ ae'["enable"] = 0
                    /\ cache'["exposure"] = manual' /\ "exposure" \in dirty'
                    /\ at' \in {"gain", "fps", "run", "write_exposure"}
                         => frame'["exposure"] = manual'
  BY DEF ManualInv
<1>0. /\ "exposure" \in Params /\ "exposure" \in Regs /\ "exposure" \in FrameFields
      /\ AeSet \subseteq Params /\ "exposure" \notin AeSet
      /\ "gain" \in Params /\ "target" \in AeSet /\ "enable" \in AeSet
  BY DEF Params, Regs, AeSet, FrameFields
<1>1. manual # NoValue =>
        /\ Running /\ at # "adjust" /\ ae["enable"] = 0
        /\ cache["exposure"] = manual /\ "exposure" \in dirty
        /\ at \in {"gain", "fps", "run", "write_exposure"}
             => frame["exposure"] = manual
  BY DEF ManualInv
<1>2. CASE Boot
  <2>1. ~Running /\ manual' = manual
    BY <1>2 DEF Boot, param_init, param_load_all, sensor_init_cb, ae_init_cb,
                param_validate_all, boot_flush, Running
  <2> QED BY <1>1, <2>1
<1>3. CASE Frame
  <2>1. ASSUME NEW p \in DOMAIN AfterRead, frame_read(p)
        PROVE  /\ Running' /\ at' # "adjust" /\ ae'["enable"] = 0
               /\ cache'["exposure"] = manual' /\ "exposure" \in dirty'
               /\ at' \in {"gain", "fps", "run", "write_exposure"}
                    => frame'["exposure"] = manual'
    <3>1. /\ at = p /\ at' = AfterRead[p] /\ frame' = [frame EXCEPT ![p] = cache[p]]
          /\ UNCHANGED <<cache, dirty, hw, ae, manual>>
      BY <2>1 DEF frame_read
    <3>2. p \in {"luma", "exposure", "gain", "fps"} /\ p \in FrameFields
      BY DEF AfterRead, FrameFields
    <3>3. frame' = [y \in FrameFields |-> IF y = p THEN cache[p] ELSE frame[y]]
      BY <3>1, <3>2, FrameSet
    <3>4. frame'["exposure"] = IF p = "exposure" THEN cache["exposure"]
                               ELSE frame["exposure"]
      BY <1>0, <3>3
    <3>5. at' \in {"exposure", "gain", "fps", "run"}
          /\ (p = "luma" => at' = "exposure")
      BY <3>1, <3>2 DEF AfterRead
    <3> QED BY <1>1, <3>1, <3>2, <3>4, <3>5 DEF Running
  <2>2. CASE ae_test
    <3>1. /\ at = "run" /\ UNCHANGED <<cache, dirty, hw, ae, frame, manual>>
          /\ at' = IF ae.enable = 0 \/ frame.luma = 0 THEN "write_exposure"
                   ELSE "adjust"
      BY <2>2 DEF ae_test
    <3> QED BY <1>1, <3>1 DEF Running
  <2>3. CASE ae_instance_run
    BY <1>1, <2>3 DEF ae_instance_run
  <2>4. CASE frame_write("exposure", "write_exposure", "write_gain")
    <3>1. /\ at = "write_exposure" /\ at' = "write_gain"
          /\ cache' = [cache EXCEPT !["exposure"] = frame["exposure"]]
          /\ dirty' = dirty \cup {"exposure"} /\ UNCHANGED <<ae, frame, manual>>
      BY <2>4 DEF frame_write
    <3>2. cache'["exposure"] = frame["exposure"]
      BY <1>0, <3>1 DEF Shape
    <3> QED BY <1>1, <3>1, <3>2 DEF Running
  <2>5. CASE frame_write("gain", "write_gain", "flush")
    <3>1. /\ at = "write_gain" /\ at' = "flush"
          /\ cache' = [cache EXCEPT !["gain"] = frame["gain"]]
          /\ dirty' = dirty \cup {"gain"} /\ UNCHANGED <<ae, frame, manual>>
      BY <2>5 DEF frame_write
    <3>2. cache'["exposure"] = cache["exposure"]
      BY <1>0, <3>1 DEF Shape
    <3> QED BY <1>1, <3>1, <3>2 DEF Running
  <2>6. CASE frame_flush
    BY <2>6 DEF frame_flush
  <2>7. CASE frame_refused
    BY <1>1, <2>7 DEF frame_refused, vars, Running
  <2> QED BY <1>3, <2>1, <2>2, <2>3, <2>4, <2>5, <2>6, <2>7 DEF Frame
<1>4. CASE Host
  <2>1. Running /\ at' = at /\ frame' = frame
    BY <1>4 DEF Host, HostMay, host_write_sensor, host_write_ae, host_reset_one,
                host_done
  <2>2. Running'
    BY <2>1 DEF Running
  <2>3. ASSUME NEW p \in DOMAIN HostValues, NEW v, host_write_sensor(p, v)
        PROVE  /\ at' # "adjust" /\ ae'["enable"] = 0
               /\ cache'["exposure"] = manual' /\ "exposure" \in dirty'
               /\ at' \in {"gain", "fps", "run", "write_exposure"}
                    => frame'["exposure"] = manual'
    <3>1. /\ p \in Params /\ cache' = [cache EXCEPT ![p] = v] /\ ae' = ae
          /\ dirty' = dirty \cup ({p} \cap Regs)
      BY <2>3, FrameAssumption DEF host_write_sensor
    <3>2. cache' = [q \in Params |-> IF q = p THEN v ELSE cache[q]]
      BY <3>1, CacheSet
    <3>3. CASE p = "exposure"
      <4>1. at = "luma" /\ ae.enable = 0 /\ manual' = v
        BY <2>3, <3>3 DEF host_write_sensor
      <4>2. cache'["exposure"] = v /\ "exposure" \in dirty'
        BY <1>0, <3>1, <3>2, <3>3
      <4> QED BY <2>1, <3>1, <4>1, <4>2
    <3>4. CASE p # "exposure"
      <4>1. manual' = manual
        BY <2>3, <3>4 DEF host_write_sensor
      <4>2. cache'["exposure"] = cache["exposure"]
        BY <1>0, <3>2, <3>4
      <4> QED BY <1>1, <2>1, <3>1, <4>1, <4>2
    <3> QED BY <3>3, <3>4
  <2>4. ASSUME NEW p, NEW v, host_write_ae(p, v)
        PROVE  /\ at' # "adjust" /\ ae'["enable"] = 0
               /\ cache'["exposure"] = manual' /\ "exposure" \in dirty'
               /\ at' \in {"gain", "fps", "run", "write_exposure"}
                    => frame'["exposure"] = manual'
    <3> DEFINE value == IF p = "target" THEN Clamp(v) ELSE v
    <3>1. /\ p \in AeSet /\ cache' = [cache EXCEPT ![p] = value]
          /\ ae' = Applied(ae, p, value) /\ dirty' = dirty
          /\ manual' = IF p = "enable" /\ v # 0 THEN NoValue ELSE manual
      BY <2>4 DEF host_write_ae
    <3>2. p = "enable" => value = v
      OBVIOUS
    <3> HIDE DEF value
    <3>3. manual' = manual /\ (p = "enable" => v = 0)
      BY <3>1
    <3>4. ae'["enable"] = 0
      <4>1. ae = [q \in AeSet |-> ae[q]]
        BY DEF Shape
      <4>2. /\ p = "target" => ae'["enable"] = ae["enable"]
            /\ p = "enable" => ae'["enable"] = value
        BY <3>1, <4>1, AeSetTo
      <4>3. p = "target" \/ p = "enable"
        BY <3>1 DEF AeSet
      <4> QED BY <1>1, <3>2, <3>3, <4>2, <4>3
    <3>5. cache'["exposure"] = cache["exposure"]
      <4>1. p \in Params /\ p # "exposure"
        BY <1>0, <3>1
      <4>2. cache' = [q \in Params |-> IF q = p THEN value ELSE cache[q]]
        BY <3>1, <4>1, CacheSet
      <4> QED BY <1>0, <4>1, <4>2
    <3> QED BY <1>1, <2>1, <3>1, <3>3, <3>4, <3>5
  <2>5. ASSUME NEW p \in HostResets, host_reset_one(p)
        PROVE  /\ at' # "adjust" /\ ae'["enable"] = 0
               /\ cache'["exposure"] = manual' /\ "exposure" \in dirty'
               /\ at' \in {"gain", "fps", "run", "write_exposure"}
                    => frame'["exposure"] = manual'
    <3>1. /\ p \in Params /\ cache' = [cache EXCEPT ![p] = Default[p]] /\ ae' = ae
          /\ dirty' = dirty \ {p}
          /\ manual' = IF p = "exposure" THEN NoValue ELSE manual
      BY <2>5, FrameAssumption DEF host_reset_one
    <3>2. p # "exposure" /\ manual' = manual
      BY <3>1
    <3>3. cache'["exposure"] = cache["exposure"]
      BY <1>0, <3>1, <3>2, CacheSet
    <3> QED BY <1>1, <2>1, <3>1, <3>2, <3>3
  <2>6. CASE host_done
    BY <1>1, <2>2, <2>6 DEF host_done
  <2> QED BY <1>4, <2>2, <2>3, <2>4, <2>5, <2>6 DEF Host
<1>5. CASE UNCHANGED vars
  BY <1>1, <1>5 DEF vars, Running
<1> QED BY <1>2, <1>3, <1>4, <1>5 DEF Next

\* For any host: an exposure set between two frames with the module off is in
\* the sensor after the next frame (app_frame_handler writes it back as read).
THEOREM ManualKept == Spec => ManualExposureKept
<1>1. Init => ManualInv
  BY DEF Init, ManualInv
<1>2. ASSUME Shape, ManualInv, [Next]_vars
      PROVE  [at = "flush" /\ at' = "luma" /\ manual # NoValue
                => hw'["exposure"] = manual]_vars
  <2> SUFFICES ASSUME Next, at = "flush", at' = "luma", manual # NoValue
               PROVE  hw'["exposure"] = manual
    BY <1>2
  <2>1. cache["exposure"] = manual /\ "exposure" \in dirty /\ "exposure" \in Regs
    BY <1>2 DEF ManualInv, Regs
  <2>2. frame_flush
    <3>1. ~Boot
      BY DEF Boot, param_init, param_load_all, sensor_init_cb, ae_init_cb,
             param_validate_all, boot_flush
    <3>2. ~Host
      BY DEF Host, host_write_sensor, host_write_ae, host_reset_one, host_done
    <3>3. \A p \in DOMAIN AfterRead : ~frame_read(p)
      BY DEF frame_read, AfterRead
    <3>4. Frame
      BY <3>1, <3>2 DEF Next
    <3> QED BY <3>3, <3>4
            DEF Frame, ae_test, ae_instance_run, frame_write, frame_refused
  <2>3. hw'["exposure"] = cache["exposure"]
    BY <1>2, <2>1, <2>2, Sent DEF frame_flush
  <2> QED BY <2>1, <2>3
<1>3. Shape /\ ManualInv /\ [Next]_vars
        => [at = "flush" /\ at' = "luma" /\ manual # NoValue
              => hw'["exposure"] = manual]_vars
  BY <1>2
<1> QED BY <1>1, <1>3, ShapeStart, ShapeStep, ManualStep, PTL
        DEF Spec, ManualExposureKept

-----------------------------------------------------------------------------
(* A frame the host leaves alone. *)

\* uint32_t values are numbers.
Numbers ==
  /\ cache["exposure"] \in Nat /\ cache["fps"] \in Nat
  /\ frame["exposure"] \in Nat /\ frame["fps"] \in Nat

Fits(x, fps) == fps = 0 \/ x <= Budget \div fps

\* What the handler has read is still so, and the exposure it computed fits on
\* its way from the frame over the cache to the register.
QuietInv ==
  quiet =>
    /\ at \in {"exposure", "gain", "fps", "run", "adjust"}
         => frame["luma"] = cache["luma"]
    /\ at \in {"run", "adjust"} => frame["fps"] = cache["fps"]
    /\ ae["enable"] # 0 /\ cache["luma"] # 0 =>
         /\ at = "write_exposure" => Fits(frame["exposure"], cache["fps"])
         /\ at \in {"write_gain", "flush"} => /\ Fits(cache["exposure"], cache["fps"])
                                              /\ "exposure" \in dirty

LEMMA MinOfTwo ==
  ASSUME NEW a \in Nat, NEW b \in Nat
  PROVE  Min({a, b}) \in Nat /\ Min({a, b}) <= b
<1>1. \E x \in {a, b} : \A y \in {a, b} : x <= y
  OBVIOUS
<1>2. Min({a, b}) \in {a, b} /\ \A y \in {a, b} : Min({a, b}) <= y
  BY <1>1 DEF Min
<1> QED BY <1>2

LEMMA LimitOf ==
  ASSUME NEW fps \in Nat, NEW limit \in Limits(fps)
  PROVE  limit \in Nat /\ (fps # 0 => limit = Budget \div fps)
<1>1. Budget \in Nat /\ Undefined \subseteq Nat
  BY FrameAssumption
<1>2. fps # 0 => Budget \div fps \in Nat
  BY <1>1
<1> QED BY <1>1, <1>2 DEF Limits

\* The exposure ae_instance_run leaves fits the rate the frame has read.
LEMMA ExposureAdjusted ==
  ASSUME Shape, Numbers, ae_instance_run
  PROVE  /\ frame'["exposure"] \in Nat /\ Fits(frame'["exposure"], frame["fps"])
         /\ frame'["fps"] = frame["fps"]
<1>1. PICK adj \in Corrections, limit \in Limits(frame["fps"]) :
        IF frame.gain < GainTop
        THEN frame' = [frame EXCEPT !.gain = AtLeast(GainFloor, @ + adj),
                                    !.exposure = Min({@, limit})]
        ELSE \E x \in ToUnsigned(frame["exposure"] + adj) :
               frame' = [frame EXCEPT !.exposure = Min({x, limit})]
  BY DEF ae_instance_run
<1>2. limit \in Nat /\ (frame["fps"] # 0 => limit = Budget \div frame["fps"])
  BY <1>1, LimitOf DEF Numbers
<1>3. \E x \in Nat : /\ frame'["exposure"] = Min({x, limit})
                     /\ frame'["fps"] = frame["fps"]
  <2>1. CASE frame.gain < GainTop
    <3> DEFINE g == AtLeast(GainFloor, frame.gain + adj)
               e == Min({frame["exposure"], limit})
    <3>1. frame' = [frame EXCEPT !.gain = g, !.exposure = e]
      BY <1>1, <2>1
    <3> HIDE DEF g, e
    <3>2. frame'["exposure"] = e /\ frame'["fps"] = frame["fps"]
      BY <3>1 DEF Shape, FrameFields
    <3> QED BY <3>2 DEF e, Numbers
  <2>2. CASE ~(frame.gain < GainTop)
    <3>1. PICK x \in ToUnsigned(frame["exposure"] + adj) :
            frame' = [frame EXCEPT !.exposure = Min({x, limit})]
      BY <1>1, <2>2
    <3>2. x \in Nat
      <4>1. frame["exposure"] + adj \in Int
        BY <1>1, FrameAssumption DEF Corrections, Numbers
      <4> QED BY <3>1, <4>1, FrameAssumption DEF ToUnsigned
    <3> DEFINE e == Min({x, limit})
    <3>3. frame' = [frame EXCEPT !.exposure = e]
      BY <3>1
    <3> HIDE DEF e
    <3>4. frame'["exposure"] = e /\ frame'["fps"] = frame["fps"]
      BY <3>3 DEF Shape, FrameFields
    <3> QED BY <3>2, <3>4 DEF e
  <2> QED BY <2>1, <2>2
<1> QED BY <1>2, <1>3, MinOfTwo DEF Fits

LEMMA NumbersStep == Shape /\ Numbers /\ [Next]_vars => Numbers'
<1> SUFFICES ASSUME Shape, Numbers, [Next]_vars PROVE Numbers'
  OBVIOUS
<1>0. /\ {"exposure", "fps"} \subseteq Params /\ "target" \in Params
      /\ "gain" \in Params /\ AeSet \subseteq Params
      /\ AeSet \cap {"exposure", "fps"} = {}
      /\ {"exposure", "fps"} \subseteq FrameFields
  BY DEF Params, Regs, AeSet, FrameFields
<1> DEFINE InCache == cache["exposure"] \in Nat /\ cache["fps"] \in Nat
           InFrame == frame["exposure"] \in Nat /\ frame["fps"] \in Nat
<1>1. InCache /\ InFrame
  BY DEF Numbers
<1>2. InFrame'
  <2>1. CASE frame' = frame
    BY <1>1, <2>1
  <2>2. ASSUME NEW p \in DOMAIN AfterRead, frame_read(p) PROVE InFrame'
    <3>1. p \in FrameFields
      BY DEF AfterRead, FrameFields
    <3>2. frame' = [y \in FrameFields |-> IF y = p THEN cache[p] ELSE frame[y]]
      BY <2>2, <3>1, FrameSet DEF frame_read
    <3> QED BY <1>0, <1>1, <3>2
  <2>3. CASE ae_instance_run
    BY <1>1, <2>3, ExposureAdjusted
  <2>4. CASE frame_flush
    BY <2>4 DEF frame_flush, NoFrame
  <2>5. \/ frame' = frame \/ ae_instance_run \/ frame_flush
        \/ \E p \in DOMAIN AfterRead : frame_read(p)
    <3>1. CASE Boot
      BY <3>1 DEF Boot, param_init, param_load_all, sensor_init_cb, ae_init_cb,
                  param_validate_all, boot_flush
    <3>2. CASE Frame
      BY <3>2 DEF Frame, ae_test, frame_write, frame_refused, vars
    <3>3. CASE Host
      BY <3>3 DEF Host, host_write_sensor, host_write_ae, host_reset_one,
                  host_done
    <3> QED BY <3>1, <3>2, <3>3 DEF Next, vars
  <2> QED BY <2>1, <2>2, <2>3, <2>4, <2>5
<1>3. InCache'
  <2>1. CASE cache' = cache
    BY <1>1, <2>1
  <2>2. CASE param_load_all
    <3>1. PICK found \in SUBSET DOMAIN Stored :
            \E v \in [found -> UNION {Stored[p] : p \in found}] :
              /\ \A p \in found : v[p] \in Stored[p]
              /\ cache' = [p \in Params |-> IF p \in found THEN v[p] ELSE cache[p]]
      BY <2>2 DEF param_load_all
    <3>2. PICK v \in [found -> UNION {Stored[p] : p \in found}] :
              /\ \A p \in found : v[p] \in Stored[p]
              /\ cache' = [p \in Params |-> IF p \in found THEN v[p] ELSE cache[p]]
      BY <3>1
    <3> QED BY <1>0, <1>1, <3>2, FrameAssumption
  <2>3. CASE param_validate_all
    <3>1. cache' = [cache EXCEPT !["target"] = Clamp(@)]
      BY <2>3 DEF param_validate_all
    <3> QED BY <1>0, <1>1, <3>1 DEF Shape
  <2>4. ASSUME NEW p \in {"exposure", "gain"}, NEW here, NEW next,
               frame_write(p, here, next)
        PROVE  InCache'
    <3>1. cache' = [q \in Params |-> IF q = p THEN frame[p] ELSE cache[q]]
      BY <1>0, <2>4, CacheSet DEF frame_write
    <3> QED BY <1>0, <1>1, <3>1
  <2>5. ASSUME NEW p \in DOMAIN HostValues, NEW v \in HostValues[p],
               host_write_sensor(p, v)
        PROVE  InCache'
    <3>1. p \in Params
      BY FrameAssumption
    <3>2. cache' = [q \in Params |-> IF q = p THEN v ELSE cache[q]]
      BY <2>5, <3>1, CacheSet DEF host_write_sensor
    <3>3. p \in {"exposure", "fps"} => v \in Nat
      BY FrameAssumption
    <3> QED BY <1>0, <1>1, <3>2, <3>3
  <2>6. ASSUME NEW p, NEW v, host_write_ae(p, v) PROVE InCache'
    <3> DEFINE value == IF p = "target" THEN Clamp(v) ELSE v
    <3>1. p \in AeSet /\ cache' = [cache EXCEPT ![p] = value]
      BY <2>6 DEF host_write_ae
    <3> HIDE DEF value
    <3>2. p \in Params /\ p \notin {"exposure", "fps"}
      BY <1>0, <3>1
    <3>3. cache' = [q \in Params |-> IF q = p THEN value ELSE cache[q]]
      BY <3>1, <3>2, CacheSet
    <3> QED BY <1>0, <1>1, <3>2, <3>3
  <2>7. ASSUME NEW p \in HostResets, host_reset_one(p) PROVE InCache'
    <3>1. p \in Params
      BY FrameAssumption
    <3>2. cache' = [q \in Params |-> IF q = p THEN Default[p] ELSE cache[q]]
      BY <2>7, <3>1, CacheSet DEF host_reset_one
    <3> QED BY <1>0, <1>1, <3>2, FrameAssumption
  <2>8. CASE Boot
    BY <2>1, <2>2, <2>3, <2>8
       DEF Boot, param_init, sensor_init_cb, ae_init_cb, boot_flush
  <2>9. CASE Frame
    <3>1. CASE cache' # cache
      <4>1. \/ frame_write("exposure", "write_exposure", "write_gain")
            \/ frame_write("gain", "write_gain", "flush")
        BY <2>9, <3>1 DEF Frame, frame_read, ae_test, ae_instance_run,
                          frame_flush, frame_refused, vars
      <4> QED BY <2>4, <4>1
    <3> QED BY <2>1, <3>1
  <2>10. CASE Host
    BY <2>1, <2>5, <2>6, <2>7, <2>10 DEF Host, host_done
  <2> QED BY <2>1, <2>8, <2>9, <2>10 DEF Next, vars
<1> QED BY <1>2, <1>3 DEF Numbers

LEMMA QuietStep == Shape /\ Numbers /\ QuietInv /\ [Next]_vars => QuietInv'
<1> SUFFICES ASSUME Shape, Numbers, QuietInv, [Next]_vars, quiet'
             PROVE  QuietInv'
  BY DEF QuietInv
<1>0. /\ "exposure" \in Params /\ "exposure" \in Regs /\ "gain" \in Params
      /\ "fps" \in Params /\ "luma" \in Params
      /\ {"luma", "exposure", "fps"} \subseteq FrameFields
  BY DEF Params, Regs, AeSet, FrameFields
<1>1. CASE UNCHANGED vars
  BY <1>1 DEF vars, QuietInv
<1>2. CASE Boot
  BY <1>2 DEF Boot, param_init, param_load_all, sensor_init_cb, ae_init_cb,
              param_validate_all, boot_flush, QuietInv
<1>3. CASE Frame
  <2>1. ASSUME NEW p \in DOMAIN AfterRead, frame_read(p) PROVE QuietInv'
    <3>1. /\ at = p /\ at' = AfterRead[p] /\ frame' = [frame EXCEPT ![p] = cache[p]]
          /\ UNCHANGED <<cache, dirty, ae, quiet>>
      BY <2>1 DEF frame_read
    <3>2. p \in {"luma", "exposure", "gain", "fps"} /\ p \in FrameFields
      BY DEF AfterRead, FrameFields
    <3>3. frame' = [y \in FrameFields |-> IF y = p THEN cache[p] ELSE frame[y]]
      BY <3>1, <3>2, FrameSet
    <3>4. /\ frame'["luma"] = IF p = "luma" THEN cache["luma"] ELSE frame["luma"]
          /\ p = "fps" => frame'["fps"] = cache["fps"]
      BY <1>0, <3>3
    <3>5. /\ at' \in {"exposure", "gain", "fps", "run"}
          /\ at' = "run" => p = "fps"
          /\ p # "luma" => at \in {"exposure", "gain", "fps"}
      BY <3>1, <3>2 DEF AfterRead
    <3> QED BY <3>1, <3>4, <3>5 DEF QuietInv
  <2>2. CASE ae_test
    <3>1. /\ at = "run" /\ UNCHANGED <<cache, dirty, ae, frame, quiet>>
          /\ at' = IF ae["enable"] = 0 \/ frame["luma"] = 0 THEN "write_exposure"
                   ELSE "adjust"
      BY <2>2 DEF ae_test
    <3> QED BY <3>1 DEF QuietInv
  <2>3. CASE ae_instance_run
    <3>1. /\ at = "adjust" /\ at' = "write_exposure"
          /\ UNCHANGED <<cache, dirty, ae, quiet>>
      BY <2>3 DEF ae_instance_run
    <3>2. Fits(frame'["exposure"], cache["fps"])
      BY <2>3, <3>1, ExposureAdjusted DEF QuietInv
    <3> QED BY <3>1, <3>2 DEF QuietInv, Fits
  <2>4. CASE frame_write("exposure", "write_exposure", "write_gain")
    <3>1. /\ at = "write_exposure" /\ at' = "write_gain"
          /\ cache' = [cache EXCEPT !["exposure"] = frame["exposure"]]
          /\ dirty' = dirty \cup {"exposure"} /\ UNCHANGED <<ae, frame, quiet>>
      BY <2>4 DEF frame_write
    <3>2. /\ cache'["exposure"] = frame["exposure"]
          /\ cache'["fps"] = cache["fps"] /\ cache'["luma"] = cache["luma"]
      BY <1>0, <3>1 DEF Shape
    <3> QED BY <3>1, <3>2 DEF QuietInv, Fits
  <2>5. CASE frame_write("gain", "write_gain", "flush")
    <3>1. /\ at = "write_gain" /\ at' = "flush"
          /\ cache' = [cache EXCEPT !["gain"] = frame["gain"]]
          /\ dirty' = dirty \cup {"gain"} /\ UNCHANGED <<ae, frame, quiet>>
      BY <2>5 DEF frame_write
    <3>2. /\ cache'["exposure"] = cache["exposure"]
          /\ cache'["fps"] = cache["fps"] /\ cache'["luma"] = cache["luma"]
      BY <1>0, <3>1 DEF Shape
    <3> QED BY <3>1, <3>2 DEF QuietInv, Fits
  <2>6. CASE frame_flush
    BY <2>6 DEF frame_flush, QuietInv
  <2>7. CASE frame_refused
    BY <2>7 DEF frame_refused, vars, QuietInv
  <2> QED BY <1>3, <2>1, <2>2, <2>3, <2>4, <2>5, <2>6, <2>7 DEF Frame
<1>4. CASE Host
  <2>1. UNCHANGED <<at, cache, dirty, ae, frame, quiet>>
    BY <1>4 DEF Host, host_write_sensor, host_write_ae, host_reset_one, host_done
  <2> QED BY <2>1 DEF QuietInv, Fits
<1> QED BY <1>1, <1>2, <1>3, <1>4 DEF Next

\* Whatever was loaded and whatever the host did before: one frame it leaves
\* alone, with the module on and a scene that is not black, brings the exposure
\* in the sensor under the limit of the frame rate (app_frame_handler,
\* ae_instance_run).  It is the step that ExposureSettles repeats.
THEOREM QuietFramesFit == Spec => QuietFrameFits
<1> DEFINE A == frame_flush /\ quiet /\ ae.enable # 0 /\ cache["luma"] # 0
                  => ExposureFits'
<1>1. Init => Numbers /\ QuietInv
  BY FrameAssumption DEF Init, Numbers, QuietInv, NoFrame
<1>2. Shape /\ QuietInv => A
  <2> SUFFICES ASSUME Shape, QuietInv, frame_flush, quiet, ae["enable"] # 0,
                      cache["luma"] # 0
               PROVE  ExposureFits'
    OBVIOUS
  <2>1. Fits(cache["exposure"], cache["fps"]) /\ "exposure" \in dirty
    BY DEF QuietInv, frame_flush
  <2>2. hw'["exposure"] = cache["exposure"] /\ cache' = cache
    BY <2>1, Sent DEF frame_flush, Regs
  <2> QED BY <2>1, <2>2 DEF Fits, ExposureFits
<1>3. Shape /\ QuietInv => [A]_vars
  BY <1>2
<1> HIDE DEF A
<1>4. [][A]_vars => QuietFrameFits
  BY DEF A, QuietFrameFits
<1> QED BY <1>1, <1>3, <1>4, ShapeStart, ShapeStep, NumbersStep, QuietStep, PTL
        DEF Spec
=============================================================================
