------------------------------- MODULE Trace --------------------------------
(***************************************************************************)
(* Kernel tracing: `trace_str` on every hart, which appends entries to the *)
(* hart's partition of the trace buffer, and the host's decoder, which     *)
(* walks over the partitions of a copy of the buffer.                      *)
(*                                                                         *)
(* A byte of the buffer is one element of `memory`.  The firmware sets the *)
(* buffer up before the launch and puts each hart's offset into the header *)
(* of its partition when the kernel is over, however it ended.             *)
(***************************************************************************)
EXTENDS Integers, SequencesExt

CONSTANTS
  NumHarts,         \* partitions of the buffer
  Stride,           \* size_per_hart, sub_buffer_size
  StdHeader,        \* STD_HEADER_SIZE
  SizeHeader,       \* SIZE_HEADER_SIZE
  EntryHeader,      \* ENTRY_HEADER_SIZE
  Align,            \* 8: a string is padded to a multiple of it
  StringMax,        \* TRACE_STRING_MAX
  Lengths,          \* bound: lengths of the texts
  MaxTexts,         \* bound: texts of each hart
  CopiedLengths,    \* bound: how much of the buffer the host may copy
  None

ASSUME TraceAssumption ==
  /\ {NumHarts, Stride, StdHeader, SizeHeader, EntryHeader, Align, StringMax} \subseteq Nat \ {0}
  /\ SizeHeader <= StdHeader /\ StdHeader <= Stride
  /\ StringMax % Align = 0
  /\ Lengths \subseteq Nat /\ MaxTexts \in Nat
  /\ CopiedLengths \subseteq 0 .. NumHarts * Stride

ASSUME NoneAssumption == None \notin Nat

VARIABLES
  memory,    \* the trace buffer
  enabled,   \* the harts tracing is enabled for
  offset,    \* the offset in each hart's control block
  pc,        \* where each hart is in `trace_str`
  text,      \* the text each hart writes: whose, which and how long
  recorded,  \* what each hart has recorded
  texts,     \* texts each hart has had
  torn,      \* the hart whose partition holds a wrong payload size
  phase,     \* "kernel", "over", "copied", "rejected" or "done"
  copied,    \* `data.len()` of the host's copy
  segment,   \* the decoder's partition
  at,        \* its offset, or None before the first entry of the partition
  decoded    \* the entries it has yielded, by partition

kernelVars == <<enabled, offset, pc, text, recorded, texts>>
hostVars == <<copied, segment, at, decoded>>
vars == <<memory, kernelVars, torn, phase, hostVars>>
-----------------------------------------------------------------------------
Harts == 0 .. NumHarts - 1
Size == NumHarts * Stride
Base(h) == h * Stride

\* Where the entries of a partition begin: after the header of the buffer, or
\* after the partition's size.
First(h) == Base(h) + (IF h = 0 THEN StdHeader ELSE SizeHeader)

AlignUp(n) == ((n + Align - 1) \div Align) * Align

Least(a, b) == IF a < b THEN a ELSE b

\* `str_len`: the text, its NUL and padding, or as much as an entry may hold.
StrLen(t) == Least(AlignUp(t.length + 1), StringMax)

Nul == [kind |-> "nul"]
Char(t, i) == [kind |-> "char", hart |-> t.hart, call |-> t.call, at |-> i]
EntryHead(t) == [kind |-> "head", hart |-> t.hart, size |-> StrLen(t)]
Other == [kind |-> "other"]
SizeOf(n) == [kind |-> "size", size |-> n]

\* Byte i of an entry's string; the last one is always NUL.
Byte(t, i) == IF i < t.length /\ i + 1 < StrLen(t) THEN Char(t, i) ELSE Nul

\* The text a reader can get back.
Kept(t) == [i \in 1 .. Least(t.length, StrLen(t) - 1) |-> Char(t, i - 1)]

Init ==
  /\ enabled \in SUBSET Harts
  /\ memory = [a \in 0 .. Size - 1 |->
                 IF a % Stride = 0 THEN SizeOf(First(a \div Stride) - a) ELSE Other]
  /\ offset = [h \in Harts |-> First(h) - Base(h)]
  /\ pc = [h \in Harts |-> "idle"]
  /\ text = [h \in Harts |-> None]
  /\ recorded = [h \in Harts |-> <<>>]
  /\ texts = [h \in Harts |-> 0]
  /\ torn = None
  /\ phase = "kernel"
  /\ copied = 0 /\ segment = 0 /\ at = None
  /\ decoded = [h \in Harts |-> <<>>]
-----------------------------------------------------------------------------
(***************************************************************************)
(* The kernel.                                                             *)
(***************************************************************************)
Goto(h, l) == pc' = [pc EXCEPT ![h] = l]

\* Variant: only the string has to fit.
FitsString(h, t) == offset[h] + StrLen(t) <= Stride
Fits(h, t) == offset[h] + EntryHeader + StrLen(t) <= Stride

\* `trace_str` up to its early return: an entry that does not fit is dropped.
TraceStr(h) ==
  /\ phase = "kernel" /\ pc[h] = "idle" /\ texts[h] < MaxTexts
  /\ texts' = [texts EXCEPT ![h] = @ + 1]
  /\ \E length \in Lengths :
       LET t == [hart |-> h, call |-> texts[h], length |-> length] IN
       IF h \in enabled /\ Fits(h, t)
       THEN text' = [text EXCEPT ![h] = t] /\ Goto(h, "head")
       ELSE UNCHANGED <<text, pc>>
  /\ UNCHANGED <<memory, enabled, offset, recorded, torn, phase, hostVars>>

Place(h) == Base(h) + offset[h]

\* The entry's header is written, ...
WriteHead(h) ==
  /\ phase = "kernel" /\ pc[h] = "head"
  /\ memory' = [a \in DOMAIN memory |->
                  IF a = Place(h) THEN EntryHead(text[h])
                  ELSE IF a \in Place(h) + 1 .. Place(h) + EntryHeader - 1 THEN Other
                  ELSE memory[a]]
  /\ Goto(h, "body")
  /\ UNCHANGED <<enabled, offset, text, recorded, texts, torn, phase, hostVars>>

\* ... then the string, ...
WriteBody(h) ==
  LET start == Place(h) + EntryHeader IN
  /\ phase = "kernel" /\ pc[h] = "body"
  /\ memory' = [a \in DOMAIN memory |->
                  IF a \in start .. start + StrLen(text[h]) - 1
                  THEN Byte(text[h], a - start) ELSE memory[a]]
  /\ Goto(h, "commit")
  /\ UNCHANGED <<enabled, offset, text, recorded, texts, torn, phase, hostVars>>

\* Variant: the offset does not count the entry's header.
EntryLenString(t) == StrLen(t)
EntryLen(t) == EntryHeader + StrLen(t)

\* ... and at last the offset, by which the entry counts.
Commit(h) ==
  /\ phase = "kernel" /\ pc[h] = "commit"
  /\ offset' = [offset EXCEPT ![h] = @ + EntryLen(text[h])]
  /\ recorded' = [recorded EXCEPT ![h] = Append(@, Kept(text[h]))]
  /\ text' = [text EXCEPT ![h] = None]
  /\ Goto(h, "idle")
  /\ UNCHANGED <<memory, enabled, texts, torn, phase, hostVars>>

\* The kernel returns, traps or is aborted, with any hart in the middle of an
\* entry, and the firmware puts the offsets into the partitions' headers.
KernelOver ==
  /\ phase = "kernel"
  /\ phase' = "over"
  /\ memory' = [a \in DOMAIN memory |->
                  IF a % Stride = 0 THEN SizeOf(offset[a \div Stride]) ELSE memory[a]]
  /\ UNCHANGED <<kernelVars, torn, hostVars>>

\* A stray store of the kernel makes one payload size too large.
Corrupt(h) ==
  /\ phase = "kernel" /\ torn = None
  /\ \E a \in First(h) .. Base(h) + offset[h] - 1, n \in {1, Stride, Size} :
       /\ memory[a].kind = "head"
       /\ memory' = [memory EXCEPT ![a].size = @ + n]
  /\ torn' = h
  /\ UNCHANGED <<kernelVars, phase, hostVars>>
-----------------------------------------------------------------------------
(***************************************************************************)
(* The host.                                                               *)
(***************************************************************************)

\* The host copies the buffer or the front of it and parses its header, whose
\* magic and version are the firmware's and need not be the decoder's.
Copy ==
  /\ phase = "over"
  /\ \E n \in CopiedLengths, known \in BOOLEAN :
       /\ copied' = n
       /\ phase' = IF n >= StdHeader /\ known THEN "copied" ELSE "rejected"
  /\ UNCHANGED <<memory, kernelVars, torn, segment, at, decoded>>

\* `segments`: the entries of a partition lie between First and End; one whose
\* header was not copied is not visited.
End(h) == Least(Base(h) + memory[Base(h)].size, copied)
Readable(h) == h = 0 \/ Base(h) + SizeHeader <= copied

\* Variant: a partition that is exhausted is visited again.
NextPartitionNever == at' = None /\ UNCHANGED segment
NextPartition == segment' = segment + 1 /\ at' = None

Here == IF at = None THEN First(segment) ELSE at

Populated == segment < NumHarts /\ Readable(segment) /\ First(segment) < End(segment)

\* A byte that is no payload size says nothing: it is taken for an empty entry.
PayloadSize == IF memory[Here].kind = "head" THEN memory[Here].size ELSE 0
Payload == [i \in 1 .. PayloadSize |-> memory[Here + EntryHeader + i - 1]]

\* Neither the partition nor the copy ends before the payload does.
Inside ==
  /\ Here + EntryHeader + PayloadSize <= End(segment)
  /\ Here + EntryHeader + PayloadSize <= copied

\* `decode_cstr`: what comes before the first NUL.
Text(payload) ==
  LET nuls == {i \in DOMAIN payload : payload[i] = Nul} IN
  IF nuls = {} THEN payload
  ELSE SubSeq(payload, 1, (CHOOSE i \in nuls : \A j \in nuls : i <= j) - 1)

\* `Entries::next`: the next entry of the partition, ...
NextEntry ==
  /\ phase = "copied" /\ Populated
  /\ Here + EntryHeader <= End(segment)
  /\ Inside
  /\ decoded' = [decoded EXCEPT ![segment] = Append(@, Text(Payload))]
  /\ at' = Here + EntryHeader + PayloadSize
  /\ UNCHANGED <<memory, kernelVars, torn, phase, copied, segment>>

\* ... no other entry in this partition, or one that does not end in it: the
\* decoder resumes at the next partition ...
Exhausted ==
  /\ phase = "copied" /\ segment < NumHarts
  /\ ~(Populated /\ Here + EntryHeader <= End(segment) /\ Inside)
  /\ NextPartition
  /\ UNCHANGED <<memory, kernelVars, torn, phase, copied, decoded>>

\* ... until there is none left.
DecodeEnds ==
  /\ phase = "copied" /\ segment = NumHarts
  /\ phase' = "done"
  /\ UNCHANGED <<memory, kernelVars, torn, hostVars>>

Decode == NextEntry \/ Exhausted \/ DecodeEnds

Next ==
  \/ \E h \in Harts : TraceStr(h) \/ WriteHead(h) \/ WriteBody(h) \/ Commit(h) \/ Corrupt(h)
  \/ KernelOver \/ Copy \/ Decode

Spec == Init /\ [][Next]_vars

\* The decoder is a loop of one thread.
FairSpec == Spec /\ WF_vars(Decode)
-----------------------------------------------------------------------------
(***************************************************************************)
(* Properties.                                                             *)
(***************************************************************************)

\* Offsets stay inside the partitions and the decoder inside the copy.
TypeOK ==
  /\ enabled \subseteq Harts
  /\ \A h \in Harts :
       /\ offset[h] \in First(h) - Base(h) .. Stride
       /\ texts[h] \in 0 .. MaxTexts
       /\ pc[h] \in {"idle", "head", "body", "commit"}
       /\ pc[h] # "idle" => text[h] \in [hart : {h}, call : 0 .. MaxTexts, length : Lengths]
  /\ torn \in Harts \cup {None}
  /\ phase \in {"kernel", "over", "copied", "rejected", "done"}
  /\ copied \in 0 .. Size
  /\ segment \in 0 .. NumHarts
  /\ at \in {None} \cup 0 .. copied

\* No hart writes into the partition of another.
PartitionsPrivate ==
  TypeOK /\ \A h \in Harts, a \in 0 .. Size - 1 :
    memory[a].kind \in {"head", "char"} /\ memory[a].hart = h => a \div Stride = h

\* The decoder yields, of each partition, what its hart has recorded, in order,
\* as far as the copy goes: no entry that was half written when the kernel ended
\* and no entry made out of what lies behind.  A payload size that is wrong spoils
\* the rest of its own partition only.
DecodedAsRecorded ==
  \A h \in Harts \ {torn} :
    /\ IsPrefix(decoded[h], recorded[h])
    /\ phase = "done" /\ copied = Size => decoded[h] = recorded[h]

\* Whatever the buffer holds, decoding comes to an end.
DecodingEnds == phase = "copied" ~> phase = "done"
=============================================================================
