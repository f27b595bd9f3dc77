---------------------------- MODULE Dc1394Camera ----------------------------
(***************************************************************************)
(* The FireWire driver over libdc1394.  First its ring of buffers:         *)
(* get_frame passes over frames that are old or corrupt, and lends one     *)
(* frame at a time.  Then the camera's features, set through libdc1394:    *)
(* most have power, mode and a value; a strobe's four parts share a        *)
(* register, HDR is reached through a pair of registers, one of which      *)
(* selects what the other is.  The two share no state.                     *)
(***************************************************************************)
EXTENDS Naturals, Sequences

CONSTANTS
  NumBuffers,  (* impl->num_buffers                                        *)
  MaxFrames,   (* bound: the frames the camera takes                       *)
  MaxStarts,   (* bound: the times start is called                         *)
  NoFrame,     (* current_frame when it is NULL                            *)
  None,        (* no setting asked for, or no longer                       *)
  MaxSets      (* bound: settings                                          *)

VARIABLES
  ring,        (* libdc1394: the filled buffers, oldest first              *)
  free,        (* libdc1394: how many buffers can be filled                *)
  current,     (* current_frame                                            *)
  callerPc,    (* "off", "start", "restart" (after resetting the bus),     *)
               (* "failed", "idle", "get" (in get_frame's loop), "using"   *)
  starts,      (* the calls of start                                       *)
  taken        (* the frames the camera has taken                          *)

ringVars == <<ring, free>>
vars == <<ringVars, current, callerPc, starts, taken>>

Capturing == callerPc \in {"idle", "get", "using"}

StartCall ==
  /\ callerPc = "off"
  /\ starts < MaxStarts
  /\ starts' = starts + 1
  /\ callerPc' = "start"
  /\ UNCHANGED <<ringVars, current, taken>>

\* dc1394_capture_setup and dc1394_video_set_transmission succeed, or the bus
\* is reset and all is tried once more.
StartDone ==
  /\ callerPc \in {"start", "restart"}
  /\ \/ /\ callerPc' = "idle"
        /\ ring' = <<>>
        /\ free' = NumBuffers
     \/ /\ callerPc' = IF callerPc = "start" THEN "restart" ELSE "failed"
        /\ UNCHANGED ringVars
  /\ UNCHANGED <<current, starts, taken>>

\* libdc1394: a frame is taken; without a free buffer it is lost.
Capture ==
  /\ Capturing
  /\ taken < MaxFrames
  /\ taken' = taken + 1
  /\ IF free > 0
     THEN \E corrupt \in BOOLEAN :
            /\ ring' = Append(ring, [no |-> taken', corrupt |-> corrupt])
            /\ free' = free - 1
     ELSE UNCHANGED ringVars
  /\ UNCHANGED <<current, callerPc, starts>>

GetFrame ==
  /\ callerPc = "idle"
  /\ current = NoFrame
  /\ callerPc' = "get"
  /\ UNCHANGED <<ringVars, current, starts, taken>>

FramesBehind == Len(ring) - 1

\* Mutant of PassedOver: old frames are taken.
PassedOver_OnlyCorrupt(f) == f.corrupt

PassedOver(f) == FramesBehind > 0 \/ f.corrupt

\* Mutant of FreeAfterPassing: a corrupt frame's buffer is not given back.
FreeAfterPassing_Old(f) == IF f.corrupt THEN free ELSE free + 1

FreeAfterPassing(f) == free + 1

\* One round of the loop: dc1394_capture_dequeue waits for a frame.
Dequeue ==
  /\ callerPc = "get"
  /\ ring # <<>>
  /\ ring' = Tail(ring)
  /\ IF PassedOver(Head(ring))
     THEN /\ free' = FreeAfterPassing(Head(ring))
          /\ UNCHANGED <<current, callerPc>>
     ELSE /\ current' = Head(ring)
          /\ callerPc' = "using"
          /\ UNCHANGED free
  /\ UNCHANGED <<starts, taken>>

ReleaseFrame ==
  /\ callerPc = "using"
  /\ free' = free + 1
  /\ current' = NoFrame
  /\ callerPc' = "idle"
  /\ UNCHANGED <<ring, starts, taken>>

Stop ==
  /\ callerPc = "idle"
  /\ ring' = <<>>
  /\ free' = 0
  /\ callerPc' = "off"
  /\ UNCHANGED <<current, starts, taken>>

Init ==
  /\ ring = <<>>
  /\ free = 0
  /\ current = NoFrame
  /\ callerPc = "off"
  /\ starts = 0
  /\ taken = 0

Next ==
  \/ StartCall
  \/ StartDone
  \/ Capture
  \/ GetFrame
  \/ Dequeue
  \/ ReleaseFrame
  \/ Stop

Spec == Init /\ [][Next]_vars

-----------------------------------------------------------------------------
\* get_frame returns the newest frame there is at that moment, and never a
\* corrupt one, however far the caller has fallen behind.
GetsNewest ==
  [][ (callerPc = "get" /\ callerPc' = "using") =>
        ring' = <<>> /\ ~current'.corrupt ]_vars

\* No buffer is lost to the ring: neither by passing over frames nor by lending.
BuffersAccounted ==
  Capturing => Len(ring) + free + (IF callerPc = "using" THEN 1 ELSE 0) = NumBuffers

-----------------------------------------------------------------------------
(* The features.                                                           *)

\* Exposure (like brightness) is set as an integer, shutter (like gain and frame
\* rate) as a floating-point number.
Automatic == {"exposure", "shutter"}
Absolute  == {"shutter"}

Features ==
  (Automatic \X {"manual", "value"})
    \cup ({"white-balance"} \X {"manual", "red", "blue"})
    \cup ({"strobe"} \X {"manual", "polarity", "delay", "duration"})
    \cup ({"frame"} \X {"timestamps", "counter"})
    \cup {<<"hdr", "enable">>}

VARIABLES
  control,    (* automatic feature -> [on, manual, abs, value, absolute]   *)
  balance,    (* white balance: [on, manual, abs, red, blue]               *)
  strobe,     (* [on, high, delay, duration]; a number is a pair of bits   *)
  frameInfo,  (* the bits set in the frame info register                   *)
  selected,   (* the imager register that is passed through                *)
  imager,     (* imager register -> [hdr, knee]: bits 0x40 and 0x100       *)
  asked,      (* history: feature -> what it was set to                    *)
  sets

featureVars == <<control, balance, strobe, frameInfo, selected, imager, asked, sets>>

-----------------------------------------------------------------------------
\* flip_endianness turns the register round, and with it the bits of a number.
Field(bits) == <<bits[2], bits[1]>>

Number(bits) == 2 * bits[1] + bits[2]

Bits(v) == <<v \div 2, v % 2>>

\* get_feature_value (but for hdr, which selects a register first)
Get(f) ==
  LET reg == f[1]
      part == f[2]
      AsBit(b) == IF b THEN 1 ELSE 0
  IN CASE reg \in Automatic /\ part = "manual" -> AsBit(control[reg].manual)
       [] reg \in Automatic /\ part = "value" ->
            IF reg \in Absolute THEN control[reg].absolute ELSE control[reg].value
       [] reg = "white-balance" ->
            IF part = "manual" THEN AsBit(balance.on) ELSE balance[part]
       [] reg = "strobe" ->
            IF part = "manual" THEN AsBit(strobe.on)
            ELSE IF part = "polarity" THEN AsBit(strobe.high)
            ELSE Number(Field(strobe[part]))
       [] reg = "frame" -> AsBit(part \in frameInfo)
       [] reg = "hdr" -> AsBit(imager["0x0f"].hdr)

-----------------------------------------------------------------------------
(* set_feature_value                                                       *)

Setting(f, v) ==
  /\ sets < MaxSets
  /\ sets' = sets + 1
  /\ asked' = [asked EXCEPT ![f] = v]

\* A feature with AUTO and MANUAL: power on, the kind of value, the mode.
SetMode(reg, v) ==
  /\ Setting(<<reg, "manual">>, v)
  /\ control' = [control EXCEPT ![reg] =
       [on |-> TRUE, manual |-> v # 0, abs |-> reg \in Absolute,
        value |-> @.value, absolute |-> @.absolute]]
  /\ UNCHANGED <<balance, strobe, frameInfo, selected, imager>>

SetValue(reg, v) ==
  /\ Setting(<<reg, "value">>, v)
  /\ control' = [control EXCEPT ![reg] =
       IF reg \in Absolute THEN [@ EXCEPT !.absolute = v] ELSE [@ EXCEPT !.value = v]]
  /\ UNCHANGED <<balance, strobe, frameInfo, selected, imager>>

\* The white balance is on and manual, or off.
SetBalanceMode(v) ==
  /\ Setting(<<"white-balance", "manual">>, v)
  /\ balance' = [balance EXCEPT !.on = (v = 1), !.manual = (@ \/ v = 1), !.abs = FALSE]
  /\ UNCHANGED <<control, strobe, frameInfo, selected, imager>>

\* Mutant of OneOf: the numbers are written without having been read.
OneOf_Alone(part, v) == [balance EXCEPT !.red = 0, !.blue = 0, ![part] = v]

\* Red and blue are read, one is replaced, and both are written.
OneOf(part, v) == [balance EXCEPT ![part] = v, !.abs = FALSE]

SetBalance(part, v) ==
  /\ Setting(<<"white-balance", part>>, v)
  /\ balance' = OneOf(part, v)
  /\ UNCHANGED <<control, strobe, frameInfo, selected, imager>>

\* set_strobe_power, _polarity, _delay and _duration
SetStrobe(part, v) ==
  /\ Setting(<<"strobe", part>>, v)
  /\ strobe' = CASE part = "manual"   -> [strobe EXCEPT !.on = (v = 1)]
                 [] part = "polarity" -> [strobe EXCEPT !.high = (v = 1)]
                 [] OTHER             -> [strobe EXCEPT ![part] = Field(Bits(v))]
  /\ UNCHANGED <<control, balance, frameInfo, selected, imager>>

SetFrameInfo(part, v) ==
  /\ Setting(<<"frame", part>>, v)
  /\ frameInfo' = IF v = 1 THEN frameInfo \cup {part} ELSE frameInfo \ {part}
  /\ UNCHANGED <<control, balance, strobe, selected, imager>>

\* Mutant of Second: the knee point's register is not selected.
Second_Same == "0x0f"

Second == "0x0a"

\* hdr: select, read, write, twice.  Any transfer may fail, and ends it.
SetHdr(v) ==
  /\ sets < MaxSets
  /\ sets' = sets + 1
  /\ LET one == [imager EXCEPT !["0x0f"].hdr = (v = 1)]
         two == [one EXCEPT ![Second].knee = (v = 1)]
         Failing == [asked EXCEPT ![<<"hdr", "enable">>] = None]
     IN \/ UNCHANGED selected /\ imager' = imager /\ asked' = Failing
        \/ selected' = "0x0f" /\ imager' = imager /\ asked' = Failing
        \/ selected' = "0x0f" /\ imager' = one /\ asked' = Failing
        \/ selected' = Second /\ imager' = one /\ asked' = Failing
        \/ selected' = Second /\ imager' = two /\ asked' = [asked EXCEPT ![<<"hdr", "enable">>] = v]
  /\ UNCHANGED <<control, balance, strobe, frameInfo>>

\* get_feature_value of hdr
ReadHdr ==
  /\ selected' = "0x0f"
  /\ UNCHANGED <<control, balance, strobe, frameInfo, imager, asked, sets>>

\* The camera (external) chooses values in automatic mode.
Adjust(reg) ==
  /\ control[reg].on /\ ~control[reg].manual
  /\ \E v \in 0..1 :
       /\ control' = [control EXCEPT ![reg] =
            [on |-> TRUE, manual |-> FALSE, abs |-> @.abs, value |-> v, absolute |-> v]]
       /\ asked' = [asked EXCEPT ![<<reg, "value">>] = None]
  /\ UNCHANGED <<balance, strobe, frameInfo, selected, imager, sets>>

-----------------------------------------------------------------------------
FeatureInit ==
  /\ control = [reg \in Automatic |->
                  [on |-> TRUE, manual |-> FALSE, abs |-> FALSE, value |-> 0, absolute |-> 0]]
  /\ balance = [on |-> FALSE, manual |-> FALSE, abs |-> FALSE, red |-> 1, blue |-> 1]
  /\ strobe = [on |-> FALSE, high |-> FALSE, delay |-> <<0, 0>>, duration |-> <<0, 0>>]
  /\ frameInfo = {}
  /\ selected = "0x0a"
  /\ imager = [r \in {"0x0f", "0x0a"} |-> [hdr |-> FALSE, knee |-> FALSE]]
  /\ asked = [f \in Features |-> None]
  /\ sets = 0

FeatureNext ==
  \/ \E v \in 0..1 :
       \/ \E reg \in Automatic : SetMode(reg, v) \/ SetValue(reg, v)
       \/ SetBalanceMode(v)
       \/ \E part \in {"red", "blue"} : SetBalance(part, v)
       \/ \E part \in {"manual", "polarity"} : SetStrobe(part, v)
       \/ \E part \in {"timestamps", "counter"} : SetFrameInfo(part, v)
       \/ SetHdr(v)
  \/ \E v \in 0..3, part \in {"delay", "duration"} : SetStrobe(part, v)
  \/ ReadHdr
  \/ \E reg \in Automatic : Adjust(reg)

-----------------------------------------------------------------------------
\* Every feature that was set reads back as it was set, whatever else was set
\* since in the same register, as long as the camera is not left to choose.
SettingsHold == \A f \in Features : asked[f] # None => Get(f) = asked[f]

\* The two bits of HDR end up in the two registers they belong to, and agree
\* unless a transfer failed in between: the register that selects is written
\* before each of them, although reading hdr moves it too.
HdrBitsApart ==
  /\ ~imager["0x0f"].knee
  /\ ~imager["0x0a"].hdr
  /\ asked[<<"hdr", "enable">>] # None => imager["0x0f"].hdr = imager["0x0a"].knee
=============================================================================
