------------------------------ MODULE SoundMmap ------------------------------
(***************************************************************************)
(* The memory-mapped sound file node ossia::nodes::sound_mmap              *)
(* (src/src/ossia/dataflow/nodes/sound_mmap.hpp): set_sound picks the     *)
(* sample converter for the file's format, run() converts the loop length *)
(* and start offset to samples and has the resampler call fetch_audio,    *)
(* which reads the file frame by frame (looping) or as one block.         *)
(*                                                                         *)
(* Data is abstracted to positions: a sample is the index of the file     *)
(* frame it was read from, or Silence (0.0).  One channel stands for all  *)
(* of them, since every channel is read at the same frame.  The           *)
(* resampler, m_loops, m_loop_duration and m_start_offset belong to       *)
(* sound_node and the resampler, which are not in this repository: the    *)
(* resampler's choice of block start, block size and fetch_audio overload *)
(* is a nondeterministic input, and the loop parameters are fixed at Init. *)
(* drwav seeks past the end clamp to the end, so the read returns nothing; *)
(* a seek inside the file may still fail (an I/O error), which the code   *)
(* handles, so its failure is a nondeterministic outcome.                  *)
(***************************************************************************)
EXTENDS Integers, Sequences, FiniteSets, FiniteSetsExt

CONSTANTS
    FileFrames,     \* totalPCMFrameCount() of the file
    Formats,        \* <<format tag, bits per sample>> pairs a file may have
    LoopImpls,      \* m_loop_duration.impl values (model time units)
    OffsetImpls,    \* m_start_offset.impl values
    SampleNum,      \* modelToSamples() = SampleNum / SampleDen
    SampleDen,
    Starts,         \* block starts the resampler passes to fetch_audio
    Sizes,          \* samples_to_write values of a tick
    Dates           \* token dates

(* The loop is at least one sample long; see the hazard on line 119.       *)
ASSUME \A l \in LoopImpls : (l * SampleNum) \div SampleDen > 0

Silence == -1                    \* a value that is no frame index (0.0)
NoFile  == <<"NONE", 0>>         \* an empty drwav_handle
Sample  == (0..FileFrames - 1) \cup {Silence}

VARIABLES
    handle,         \* the format of the file m_handle holds, or NoFile
    converter,      \* m_converter
    mode,           \* m_mode (audio_stretch_mode)
    resetAt,        \* the date of the last m_resampler.reset
    prevDate,       \* m_prev_date
    loops,          \* m_loops (sound_node)
    loopImpl,       \* m_loop_duration.impl (sound_node)
    offsetImpl,     \* m_start_offset.impl (sound_node)
    loopSamples,    \* m_loop_duration_samples
    offsetSamples,  \* m_start_offset_samples
    buf,            \* m_resampleBuffer (one channel)
    out,            \* audio_array, as last written by fetch_audio
    call,           \* the last fetch_audio call, for the reference
    fault           \* "none", or "null_converter" once m_converter(...) ran null

vars == <<handle, converter, mode, resetAt, prevDate, loops, loopImpl,
          offsetImpl, loopSamples, offsetSamples, buf, out, call, fault>>

\* audio_stretch_mode is not in this repository: its zero value, and another
Modes == {"Zero", "Other"}

NoCall == [overload |-> "none", start |-> 0, n |-> 0, loops |-> FALSE,
           loop |-> 1, offset |-> 0, fails |-> {}]

-----------------------------------------------------------------------------
Init ==
    /\ handle = NoFile
    /\ converter = "none"
    /\ mode = "Zero"
    /\ resetAt = 0
    /\ prevDate = 0
    /\ loops \in BOOLEAN
    /\ loopImpl \in LoopImpls
    /\ offsetImpl \in OffsetImpls
    /\ loopSamples = 0
    /\ offsetSamples = 0
    /\ buf = <<>>
    /\ out = <<>>
    /\ call = NoCall
    /\ fault = "none"

(* set_sound: the converter is chosen by format tag and bit depth; an      *)
(* unknown tag clears it, an unknown bit depth of a known tag keeps the    *)
(* previous one.  The resampler is reset at date 0.                        *)
Decoder(f) ==
    CASE f = <<"PCM", 16>>   -> "s16"
      [] f = <<"PCM", 24>>   -> "s24"
      [] f = <<"PCM", 32>>   -> "s32"
      [] f = <<"FLOAT", 32>> -> "f32"
      [] f = <<"FLOAT", 64>> -> "f64"
      [] f[1] \in {"PCM", "FLOAT"} -> converter
      [] OTHER -> "none"

SetSound(h, f) ==
    /\ fault = "none"
    /\ handle' = IF h THEN f ELSE NoFile
    /\ converter' = IF h THEN Decoder(f) ELSE converter
    /\ resetAt' = 0
    /\ UNCHANGED <<mode, prevDate, loops, loopImpl, offsetImpl, loopSamples,
                   offsetSamples, buf, out, call, fault>>

(* set_stretch_mode resets the resampler only when the mode changes.       *)
SetStretchMode(m) ==
    /\ fault = "none"
    /\ m # mode
    /\ mode' = m
    /\ resetAt' = 0
    /\ UNCHANGED <<handle, converter, prevDate, loops, loopImpl, offsetImpl,
                   loopSamples, offsetSamples, buf, out, call, fault>>

(* reset_resampler(date): the engine resets the resampler at a date, as   *)
(* run() does on a backward jump.                                          *)
ResetResampler(d) ==
    /\ fault = "none"
    /\ resetAt' = d
    /\ UNCHANGED <<handle, converter, mode, prevDate, loops, loopImpl,
                   offsetImpl, loopSamples, offsetSamples, buf, out, call, fault>>

-----------------------------------------------------------------------------
(* time_value.impl * modelToSamples(), a double, stored in an int64_t:     *)
(* truncated towards zero.                                                  *)
ToSamples(impl) == (impl * SampleNum) \div SampleDen

(* The frame sample k (1-based) of a call is read from: the looping        *)
(* branch wraps start + k - 1 in the loop, the block branch does not.      *)
FramePos(c, k) ==
    IF c.loops THEN c.offset + ((c.start + k - 1) % c.loop)
               ELSE c.offset + c.start + k - 1

(* What the block branch reads: seek to start + offset (clamped to the    *)
(* end), then read_pcm_frames returns at most what is left of the file.    *)
BlockCount(c) ==
    LET target == c.start + c.offset
    IN  IF target >= FileFrames THEN 0 ELSE Min({c.n, FileFrames - target})

(* std::vector::resize: keep the first elements, value-initialise the rest *)
Resize(s, n) == [k \in 1..n |-> IF k <= Len(s) THEN s[k] ELSE Silence]

(* The samples m_converter decodes into the destination span, sample k.   *)
Decoded(c, k) ==
    IF c.loops THEN FramePos(c, k) < FileFrames /\ k \notin c.fails
               ELSE c.fails = {} /\ k <= BlockCount(c)

(* fetch_audio, double overload: decode into m_resampleBuffer,         *)
(* write silence into audio_array where nothing is read, then copy the    *)
(* whole resample buffer into audio_array.  A failed block seek returns   *)
(* before the copy.                                                        *)
FetchDouble(c) ==
    LET b == Resize(buf, c.n)
        decoded == [k \in 1..c.n |-> IF Decoded(c, k) THEN FramePos(c, k)
                                                      ELSE b[k]]
    IN  /\ buf' = decoded
        /\ out' = IF ~c.loops /\ c.fails # {}
                  THEN [k \in 1..c.n |-> Silence]
                  ELSE decoded

\* mutant: the block branch does not zero audio_array past count
FetchFloatNoTail(c) ==
    /\ out' = [k \in 1..c.n |->
                 CASE Decoded(c, k) -> FramePos(c, k)
                   [] ~c.loops /\ c.fails = {} /\ k <= Len(out) -> out[k]
                   [] OTHER -> Silence]
    /\ UNCHANGED buf

\* mutant: the loop runs for k <= samples_to_write
FetchFloatOverrun(c) ==
    /\ out' = [k \in 1..c.n + 1 |-> IF Decoded(c, k) THEN FramePos(c, k)
                                                     ELSE Silence]
    /\ UNCHANGED buf

(* fetch_audio, float overload: decode straight into                   *)
(* audio_array, silence where nothing is read.                              *)
FetchFloat(c) ==
    /\ out' = [k \in 1..c.n |-> IF Decoded(c, k) THEN FramePos(c, k)
                                                 ELSE Silence]
    /\ UNCHANGED buf

(* Whether fetch_audio calls m_converter: for every frame of the looping  *)
(* branch that is inside the file and whose seek succeeded, and once in    *)
(* the block branch when the seek succeeded, even to read nothing.         *)
ConverterCalled(c) ==
    IF c.loops THEN \E k \in 1..c.n : FramePos(c, k) < FileFrames /\ k \notin c.fails
               ELSE c.fails = {}

(* Seek failures a call may meet: any frame seek of the looping branch,   *)
(* or the one block seek.                                                  *)
SeekFaults(lp, n) == IF lp THEN SUBSET (1..n) ELSE {{}, {1}}

(* run(): without a file, or with nothing to write, or at a speed that is  *)
(* not positive, nothing happens.  Otherwise a backward jump resets the    *)
(* resampler, the loop length and offset are converted to samples, the    *)
(* resampler fetches one block, and the date is remembered.  A call of a  *)
(* null m_converter ends the process: nothing happens after it.            *)
Run(t, start, n, overload) ==
    /\ fault = "none"
    /\ handle # NoFile
    /\ n # 0
    /\ t.speed > 0
    /\ resetAt' = IF t.prev < prevDate THEN t.prev ELSE resetAt
    /\ loopSamples' = ToSamples(loopImpl)
    /\ offsetSamples' = ToSamples(offsetImpl)
    /\ \E fails \in SeekFaults(loops, n) :
         LET c == [overload |-> overload, start |-> start, n |-> n,
                   loops |-> loops, loop |-> ToSamples(loopImpl),
                   offset |-> ToSamples(offsetImpl), fails |-> fails]
         IN  IF converter = "none" /\ ConverterCalled(c)
             THEN fault' = "null_converter" /\ call' = c /\ UNCHANGED <<buf, out>>
             ELSE /\ fault' = fault
                  /\ call' = c
                  /\ IF overload = "double" THEN FetchDouble(c) ELSE FetchFloat(c)
    /\ prevDate' = t.date
    /\ UNCHANGED <<handle, converter, mode, loops, loopImpl, offsetImpl>>

(* token_request: a tick from prev_date to date at some speed.             *)
Tokens == {t \in [prev : Dates, date : Dates, speed : {0, 1}] : t.prev <= t.date}

Next ==
    \/ \E h \in BOOLEAN, f \in Formats : SetSound(h, f)
    \/ \E m \in Modes : SetStretchMode(m)
    \/ \E d \in Dates : ResetResampler(d)
    \/ \E t \in Tokens, s \in Starts, n \in Sizes, o \in {"float", "double"} :
           Run(t, s, n, o)

Spec == Init /\ [][Next]_vars

-----------------------------------------------------------------------------
TypeOK ==
    /\ handle \in Formats \cup {NoFile}
    /\ converter \in {"none", "s16", "s24", "s32", "f32", "f64"}
    /\ buf \in Seq(Sample)
    /\ out \in Seq(Sample)
    /\ fault = "none" => Len(out) = call.n

(* The reference: the frame a player of this loop should output at sample  *)
(* k of the call, or silence past the end of the file.                     *)
Intended(c, k) == IF FramePos(c, k) < FileFrames THEN FramePos(c, k) ELSE Silence

(* What fetch_audio writes into audio_array is the reference: every sample *)
(* is the intended frame, or silence where a seek failed, and exactly the  *)
(* reference when no seek failed.  Checked for each overload.              *)
FetchMatchesReference(o) ==
    call.overload = o /\ fault = "none" =>
        /\ \A k \in 1..call.n : out[k] \in {Intended(call, k), Silence}
        /\ call.fails = {} => out = [k \in 1..call.n |-> Intended(call, k)]

FloatFetchMatchesReference == FetchMatchesReference("float")

DoubleFetchMatchesReference == FetchMatchesReference("double")

=============================================================================
