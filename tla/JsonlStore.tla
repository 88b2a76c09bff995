----------------------------- MODULE JsonlStore -----------------------------
(***************************************************************************)
(* The JSONL backend (cogito-store/src/jsonl.rs): one file per session, one *)
(* line per event.  A write that fails, or that a crash cuts short, leaves  *)
(* part of a line without its newline, and the next append continues it.    *)
(***************************************************************************)
EXTENDS EventLog

\* A line of the file: ok if it parses as one event, which is then body; nl
\* if its newline was written.
Line(ok, body, nl) == [ok |-> ok, body |-> body, nl |-> nl]

\* The file ends inside a line.
Dangling(file) == file # <<>> /\ ~file[Len(file)].nl

\* Mutant: what continues a cut line is cut as well.
ContinueOpen(file, line) ==
    IF Dangling(file) THEN [file EXCEPT ![Len(file)] = Line(FALSE, line.body, FALSE)]
    ELSE Append(file, line)

\* What the file becomes when a line with this body is written; on a dangling
\* line the two run together, and the result parses as no event.
Continue(file, line) ==
    IF Dangling(file) THEN [file EXCEPT ![Len(file)] = Line(FALSE, line.body, line.nl)]
    ELSE Append(file, line)

\* append: the line and its newline.
Appended(file, body) == Continue(file, Line(TRUE, body, TRUE))

\* What a write cut short leaves: nothing, part of the JSON, or all of it
\* without the newline.
Tears == {"nothing", "part", "bare"}
Torn(file, body, tear) ==
    IF tear = "nothing" THEN file ELSE Continue(file, Line(tear = "bare", body, FALSE))

Readable(file) == \A i \in DOMAIN file : file[i].ok

\* latest_seq: the seq of the last line, an error if it does not parse, -1
\* for an empty file.
LatestFails(file) == file # <<>> /\ ~file[Len(file)].ok
LatestSeq(file) == IF file = <<>> THEN -1 ELSE file[Len(file)].body.seq

\* replay: the events with seq > from, up to the first line that does not
\* parse, at which the stream ends in an error.
ReplayFrom(file, from) ==
    LET stop == {i \in DOMAIN file : ~file[i].ok}
        len  == IF stop = {} THEN Len(file) ELSE (CHOOSE i \in stop : \A k \in stop : i <= k) - 1
    IN  Picked([i \in 1..len |-> file[i].body], {i \in 1..len : file[i].body.seq > from})
=============================================================================
