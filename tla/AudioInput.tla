----------------------------- MODULE AudioInput -----------------------------
(***************************************************************************)
(* audio/resample.rs, audio/wav_writer.rs and the decoding of a request's  *)
(* body in api/transcribe.rs: which bytes of it become samples, and what   *)
(* refuses it.  A WAV file is its length and the chunk headers a reader    *)
(* meets, in order.  What a sample is worth is modelled where a file is    *)
(* written and read again; the filter of the resampler is not.             *)
(***************************************************************************)
EXTENDS Integers, SequencesExt

Fmt == [format : {"int", "float", "other"}, rate : Nat, channels : Nat, bits : Nat]
Chunk == [id : {"fmt", "data", "other"}, size : Nat, fmt : Fmt]
WavFile == [riff : BOOLEAN, len : Nat, chunks : Seq(Chunk)]

(* chunks are word-aligned *)
Padded(size) == size + (size % 2)

(* The loop of parse_wav_header: "scanning" until it has both chunks, or fails *)
ScanStart == [pos |-> 12, fmt |-> <<>>, data |-> <<>>, state |-> "scanning"]

BadFmt(c, pos, len) == c.id = "fmt" /\ (c.size < 16 \/ pos + 8 + 16 > len \/ c.fmt.format = "other")

ScanChunk(s, c, len) ==
  IF s.state # "scanning" \/ s.pos + 8 > len THEN s
  ELSE IF BadFmt(c, s.pos, len) THEN [s EXCEPT !.state = "failed"]
  ELSE LET fmt  == IF c.id = "fmt" THEN <<c.fmt>> ELSE s.fmt
           data == IF c.id = "data" THEN <<[offset |-> s.pos + 8, size |-> c.size]>> ELSE s.data
       IN [pos |-> s.pos + 8 + Padded(c.size), fmt |-> fmt, data |-> data,
           state |-> IF fmt # <<>> /\ data # <<>> THEN "found" ELSE "scanning"]

(* <<>> is a refusal, here and below *)
ParseWavHeader(f) ==
  LET s == FoldLeft(LAMBDA t, c : ScanChunk(t, c, f.len), ScanStart, f.chunks)
  IN IF f.riff /\ f.len >= 12 /\ s.state = "found"
     THEN <<[fmt |-> s.fmt[1], offset |-> s.data[1].offset, size |-> s.data[1].size]>>
     ELSE <<>>

(* pcm_bytes_to_f32: how many bytes a sample has, and how many samples they are *)
SampleWidth(format, bits) ==
  CASE format = "int" /\ bits \in {16, 24, 32} -> bits \div 8
    [] format = "float" /\ bits = 32 -> 4
    [] OTHER -> 0
PcmSamples(bytes, format, bits) ==
  LET w == SampleWidth(format, bits)
  IN IF w = 0 \/ (w > 0 /\ bytes % w # 0) THEN <<>> ELSE <<bytes \div w>>

(* mix_to_mono: what is left of a last, incomplete frame is dropped *)
Mono(samples, channels) == IF channels > 1 THEN samples \div channels ELSE samples

(* resample_to_16khz_mono and raw_pcm_to_f32, up to the resampler *)
End(h, len) == IF h.offset + h.size < len THEN h.offset + h.size ELSE len
WavSamples(f) ==
  LET h == ParseWavHeader(f)
  IN IF h = <<>> THEN <<>>
     ELSE LET n == PcmSamples(End(h[1], f.len) - h[1].offset, h[1].fmt.format, h[1].fmt.bits)
          IN IF n = <<>> THEN <<>> ELSE <<[mono |-> Mono(n[1], h[1].fmt.channels), rate |-> h[1].fmt.rate]>>
RawSamples(bytes, rate, channels) ==
  LET n == PcmSamples(bytes, "int", 16)
  IN IF n = <<>> THEN <<>> ELSE <<[mono |-> Mono(n[1], channels), rate |-> rate]>>

SampleRate == 16000
(* decode_audio: raw PCM is what its parameters say, 16 kHz mono without them *)
DecodeAudio(octets, f, rate, channels) ==
  IF octets THEN RawSamples(f.len, IF rate = <<>> THEN SampleRate ELSE rate[1],
                                   IF channels = <<>> THEN 1 ELSE channels[1])
  ELSE WavSamples(f)

(* prepare: the milliseconds that a batch is limited by *)
DurationMs(samples) == (samples * 1000) \div SampleRate

(* validate_start: a stream is 16-bit mono at 16 kHz, or it does not start *)
ValidStart(pcm16, rate, channels, named) ==
  pcm16 /\ rate \in {<<>>, <<SampleRate>>} /\ channels \in {<<>>, <<1>>} /\ named

(* wav_writer.rs: encode; the writer puts a header of 44 bytes before the samples *)
Encode(samples) ==
  [riff |-> TRUE, len |-> 44 + 2 * samples,
   chunks |-> <<[id |-> "fmt", size |-> 16,
                 fmt |-> [format |-> "int", rate |-> SampleRate, channels |-> 1, bits |-> 16]],
                [id |-> "data", size |-> 2 * samples,
                 fmt |-> [format |-> "other", rate |-> 0, channels |-> 0, bits |-> 0]]>>]

-----------------------------------------------------------------------------
(* resample.rs:32-110: the header is that of the first chunk by which there is both a
   format and samples, if every chunk up to it begins in the file; the last of each
   kind counts. *)
HeaderIsFirstComplete(f) ==
  LET at(i)   == 12 + FoldLeft(LAMBDA n, c : n + 8 + Padded(c.size), 0, SubSeq(f.chunks, 1, i - 1))
      upTo(i, id) == {j \in 1 .. i : f.chunks[j].id = id}
      last(S) == CHOOSE j \in S : \A k \in S : k <= j
      whole   == {i \in DOMAIN f.chunks :
                    /\ upTo(i, "fmt") # {} /\ upTo(i, "data") # {}
                    /\ \A j \in 1 .. i : at(j) + 8 <= f.len /\ ~BadFmt(f.chunks[j], at(j), f.len)}
      found   == CHOOSE i \in whole : \A j \in whole : i <= j
      data    == last(upTo(found, "data"))
  IN ParseWavHeader(f) =
       IF ~f.riff \/ f.len < 12 \/ whole = {} THEN <<>>
       ELSE <<[fmt |-> f.chunks[last(upTo(found, "fmt"))].fmt,
               offset |-> at(data) + 8, size |-> f.chunks[data].size]>>

(* wav_writer.rs:1-7: what is archived is read again, sample for sample. *)
ArchiveIsReadAgain(samples) ==
  WavSamples(Encode(samples)) = <<[mono |-> samples, rate |-> SampleRate]>>

-----------------------------------------------------------------------------
(* A sample's value, in units of the depth it has.  A byte is 0 .. 255. *)
Byte == 0 .. 255
AsI32(u) == IF u < 32768 * 65536 THEN u ELSE u - 65536 * 65536
Sample16(b0, b1) == LET u == b0 + 256 * b1 IN IF u < 32768 THEN u ELSE u - 65536
(* three bytes at the top of a u32, and an arithmetic shift back *)
Sample24(b0, b1, b2) == AsI32(256 * b0 + 65536 * b1 + 16777216 * b2) \div 256

(* encode's sample, for a value of 16 bits or one that resampling took past them *)
Write16(v) == IF v > 32767 THEN 32767 ELSE IF v < -32768 THEN -32768 ELSE v
=============================================================================
