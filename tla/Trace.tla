-------------------------------- MODULE Trace --------------------------------
(***************************************************************************)
(* The trace reader of csc369_trace.c.  A trace file is a sequence of      *)
(* lines, and a line the sequence of texts in which fgets returns it: one, *)
(* or more if it is longer than the buffer of 256 characters.  A text is   *)
(* an access, a comment (it starts with '=') or invalid: not three fields, *)
(* an unknown type, or an offset outside the simulated frame.              *)
(***************************************************************************)
EXTENDS Integers, Sequences, SequencesExt

CONSTANTS
  Files,        \* the trace files considered
  MAX_ERRORS    \* bound: read errors in one run

VARIABLES
  file,         \* [lines, terminated]: is the last text returned without
                \* meeting the end of the file?  It ends in a newline, or
                \* it fills the buffer.
  pos,          \* texts read so far
  buffer,       \* the text in trace->buffer
  delivered,    \* virtual addresses of the accesses returned so far
  result,       \* last CSC369_TraceRead: 0 an access, -1 none
  errors        \* read errors so far

traceVars == <<file, pos, buffer, delivered, result, errors>>

Access(va) == [kind |-> "access", va |-> va]
Comment == [kind |-> "comment"]
Invalid == [kind |-> "invalid"]

Texts(f) == FlattenSeq(f.lines)

(* CSC369_TraceCreate: the buffer is all zeros, which is not an access.    *)
TraceInit ==
  /\ file \in Files
  /\ pos = 0 /\ buffer = Invalid /\ delivered = <<>> /\ result = 0 /\ errors = 0

(* The loop of fgets stops at text q: everything before it is a comment.   *)
SkipsTo(q) ==
  /\ q \in pos + 1 .. Len(Texts(file)) + 1
  /\ \A p \in pos + 1 .. q - 1 : Texts(file)[p].kind = "comment"
  /\ q <= Len(Texts(file)) => Texts(file)[q].kind # "comment"

(* The part of CSC369_TraceRead after feof.                                *)
Parse(text) ==
  IF text.kind = "access"
    THEN result' = 0 /\ delivered' = Append(delivered, text.va)
    ELSE result' = -1 /\ UNCHANGED delivered

(* Faulty variant: a line that is not an access is skipped.                *)
ReadSkipsInvalid ==
  \E q \in pos + 1 .. Len(Texts(file)) :
    /\ \A p \in pos + 1 .. q - 1 : Texts(file)[p].kind # "access"
    /\ pos' = q /\ buffer' = Texts(file)[q] /\ Parse(Texts(file)[q])
    /\ Texts(file)[q].kind = "access" \/ q = Len(Texts(file))
    /\ UNCHANGED <<file, errors>>

(* An fgets that meets the end of the file, in a last line without a       *)
(* newline too, makes feof true: nothing is returned.                      *)
ReadText ==
  \E q \in pos + 1 .. Len(Texts(file)) + 1 :
    LET texts == Texts(file)
        last == IF q > Len(texts) THEN q - 1 ELSE q
        feof == q > Len(texts) \/ (q = Len(texts) /\ ~file.terminated)
    IN  /\ SkipsTo(q)
        /\ pos' = last
        /\ buffer' = IF last > pos THEN texts[last] ELSE buffer
        /\ Parse(IF feof THEN Invalid ELSE texts[q])
        /\ UNCHANGED <<file, errors>>

(* fgets fails with an error, which feof does not tell: what the buffer    *)
(* holds, the last access or a comment, is parsed again.  The error is     *)
(* taken to strike between two texts.                                      *)
ReadError ==
  /\ errors < MAX_ERRORS
  /\ \E q \in pos .. Len(Texts(file)) :
       /\ \A p \in pos + 1 .. q : Texts(file)[p].kind = "comment"
       /\ pos' = q
       /\ buffer' = IF q > pos THEN Texts(file)[q] ELSE buffer
       /\ Parse(buffer')
  /\ errors' = errors + 1
  /\ UNCHANGED file

CSC369_TraceRead == ReadText \/ ReadError

-----------------------------------------------------------------------------
(* Every line fits the buffer.                                             *)
Tidy(f) == \A m \in DOMAIN f.lines : Len(f.lines[m]) = 1

(* The addresses in the first n lines, n = 0, 1 ..., the lines from the    *)
(* first one on that is neither an access nor a comment left out.          *)
Replayed(lines) ==
  LET Valid(n) == \A m \in 1 .. n : lines[m] # <<Invalid>>
      vas[n \in 0 .. Len(lines)] ==
        IF n = 0 THEN <<>>
        ELSE IF Valid(n) /\ lines[n] # <<Comment>>
               THEN Append(vas[n - 1], lines[n][1].va) ELSE vas[n - 1]
  IN  vas

Accesses(f) == Replayed(f.lines)[Len(f.lines)]

(* A trace whose lines fit the buffer and end in a newline, read without   *)
(* an error, is replayed up to its first invalid line: every access once   *)
(* and in order, however comments are placed, and all of them when         *)
(* CSC369_TraceRead returns -1.  Of the other traces nothing is claimed: a *)
(* last line without a newline is dropped (HANDOUT.md:55 says "for each    *)
(* line in the trace"), and after a read error an access that was not read *)
(* is returned (csc369_trace.h:52 says "0 iff an item has been read").     *)
TraceReplayed ==
  Tidy(file) /\ file.terminated /\ errors = 0 =>
    /\ IsPrefix(delivered, Accesses(file))
    /\ result = -1 => delivered = Accesses(file)
=============================================================================
