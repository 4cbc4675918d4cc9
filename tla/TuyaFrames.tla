------------------------------ MODULE TuyaFrames ------------------------------
(***************************************************************************)
(* The frames of the Tuya local protocol on a TCP stream: how parse_frame, *)
(* parse_frame_v35 and parse_frame_any of synaptex-tuya/protocol.rs cut    *)
(* them out of the bytes read so far, and the read loop of recv_state that *)
(* keeps the rest.                                                         *)
(*                                                                         *)
(* A frame is its form on the wire, its length field and whether its check *)
(* value is right; its contents play no part in the cutting.               *)
(***************************************************************************)
EXTENDS Integers, Sequences, SequencesExt

(* "Crc" and "Hmac" frames start with 0x55AA, "Gcm" ones with 0x6699.      *)
Forms == {"Crc", "Hmac", "Gcm"}

(* The bytes of the check value and the suffix, counted by the length      *)
(* field; for Gcm the nonce and the tag are.                               *)
TrailerLen == [Crc |-> 8, Hmac |-> 36, Gcm |-> 28]
MIN_FRAME_LEN == 24

(* The bytes a frame takes: the header, data_len and, for Gcm, the suffix. *)
TotalFrame(fr) == fr.data_len + (IF fr.form = "Gcm" THEN 22 ELSE 16)

(* build_frame and build_frame_v35 of a payload.                           *)
BuildFrame(form, payload_len) ==
  [form |-> form, data_len |-> payload_len + TrailerLen[form], intact |-> TRUE]

More == [kind |-> "more", consumed |-> 0]
Fail == [kind |-> "error", consumed |-> 0]
Panic == [kind |-> "panic", consumed |-> 0]
Whole(fr) == [kind |-> "frame", consumed |-> TotalFrame(fr)]

(* parse_frame of n bytes that begin with fr, for a trailer kind.  Its     *)
(* slices are cut from the payload's end, which the length field gives if  *)
(* it covers a trailer of that kind and the header's end is otherwise.     *)
ParseFrame(fr, n, trailer) ==
  LET payload_end == 16 + (IF fr.data_len < TrailerLen[trailer] THEN 0
                           ELSE fr.data_len - TrailerLen[trailer])
      check_end == payload_end + TrailerLen[trailer] - 4
  IN IF n < MIN_FRAME_LEN \/ n < TotalFrame(fr) THEN More
     ELSE IF n < check_end THEN Panic
     ELSE IF fr.intact /\ fr.form = trailer THEN Whole(fr)
     ELSE Fail

ParseFrameV35(fr, n, has_key) ==
  IF n < 18 \/ n < TotalFrame(fr) THEN More
  ELSE IF fr.data_len >= TrailerLen.Gcm /\ has_key /\ fr.intact THEN Whole(fr)
  ELSE Fail

(* parse_frame_any; the key of a session is None, or Some with a trailer.  *)
ParseFrameAny(fr, n, has_key, trailer) ==
  IF n < 4 THEN More
  ELSE IF fr.form = "Gcm" THEN ParseFrameV35(fr, n, has_key)
  ELSE ParseFrame(fr, n, trailer)

(* The form of the frames of a session: what recv_state passes on.         *)
HasKey(form) == form # "Crc"
TrailerOf(form) == IF form = "Hmac" THEN "Hmac" ELSE "Crc"

-----------------------------------------------------------------------------
(* The read loop.  A reader has taken the frames before the next one,      *)
(* which begins after "from" bytes, and may have met an error.             *)

Reader == [next |-> 1, from |-> 0, stop |-> "no"]

(* Mutant of Cut: what was read beyond the frame is thrown away.           *)
CutAndClear(form, stream, r, n) ==
  IF r.next > Len(stream) \/ r.stop # "no" THEN r
  ELSE LET p == ParseFrameAny(stream[r.next], n - r.from, HasKey(form), TrailerOf(form))
       IN CASE p.kind = "more"  -> r
            [] p.kind = "frame" -> [r EXCEPT !.next = @ + 1, !.from = n]
            [] OTHER            -> [r EXCEPT !.stop = p.kind]

(* One turn of the inner loop, n bytes of the stream having been read.     *)
Cut(form, stream, r, n) ==
  IF r.next > Len(stream) \/ r.stop # "no" THEN r
  ELSE LET p == ParseFrameAny(stream[r.next], n - r.from, HasKey(form), TrailerOf(form))
       IN CASE p.kind = "more"  -> r
            [] p.kind = "frame" -> [r EXCEPT !.next = @ + 1, !.from = @ + p.consumed]
            [] OTHER            -> [r EXCEPT !.stop = p.kind]

(* A read brings the bytes up to the n-th, and all whole frames are cut.   *)
AfterRead(form, stream, r, n) ==
  FoldLeft(LAMBDA q, i : Cut(form, stream, q, n), r, [i \in 1..Len(stream) |-> i])

(* The reader after reads that end at the given bytes.                     *)
AfterReads(form, stream, ends) ==
  FoldLeft(LAMBDA r, n : AfterRead(form, stream, r, n), Reader, ends)

StreamLen(stream) == FoldLeft(LAMBDA n, fr : n + TotalFrame(fr), 0, stream)

-----------------------------------------------------------------------------
(* What the properties compare.                                            *)

(* The reader has taken the frames up to the first damaged one.            *)
Expected(stream) ==
  CASE ~stream[1].intact -> [next |-> 1, from |-> 0, stop |-> "error"]
    [] stream[1].intact /\ ~stream[2].intact ->
         [next |-> 2, from |-> TotalFrame(stream[1]), stop |-> "error"]
    [] OTHER -> [next |-> 3, from |-> StreamLen(stream), stop |-> "no"]
=============================================================================
