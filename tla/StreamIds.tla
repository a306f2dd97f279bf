------------------------------ MODULE StreamIds ------------------------------
(***************************************************************************)
(* Redis streams as the async query code uses them (XADD, XRANGE), the     *)
(* order of their ids, and the two functions that turn "the last id I      *)
(* received" into "the first id I have not received": the Flask app's      *)
(* increment_id and the WebSocket server's incrementId.                    *)
(*                                                                         *)
(* A textual id 'ms-seq' is a record of two numbers.  increment_id works   *)
(* on the text, and is translated by what it does to the number that the   *)
(* digits after the dash spell.                                            *)
(***************************************************************************)
EXTENDS Naturals, Sequences

StreamId == [ms : Nat, seq : Nat]

\* '-', the start of every stream; Redis never gives out 0-0.
NoId == [ms |-> 0, seq |-> 0]

\* '+': an id past every entry that was added until now.
Plus(now) == [ms |-> now + 1, seq |-> 0]

Before(a, b) == \/ a.ms < b.ms
                \/ a.ms = b.ms /\ a.seq < b.seq

NotAfter(a, b) == a = b \/ Before(a, b)

(***************************************************************************)
(* A stream keeps every entry ever added in log; the first floor of them   *)
(* have been trimmed away and no command sees them any more.               *)
(***************************************************************************)
EmptyStream == [log |-> <<>>, floor |-> 0]

\* The id of the newest entry.  Redis remembers it when the entry is trimmed.
LastIdOf(stream) ==
    IF stream.log = <<>> THEN NoId ELSE stream.log[Len(stream.log)].id

(***************************************************************************)
(* XADD with id '*': the current millisecond with sequence number 0, or    *)
(* the successor of the stream's last id when the clock has not passed it. *)
(***************************************************************************)
NextId(stream, now) ==
    IF LastIdOf(stream).ms < now
    THEN [ms |-> now, seq |-> 0]
    ELSE [LastIdOf(stream) EXCEPT !.seq = @ + 1]

(***************************************************************************)
(* XADD ... MAXLEN ~ limit: the streams the command may leave behind.      *)
(* redis-py trims approximately: whole nodes of old entries may go or      *)
(* stay, and the newest limit entries are always kept.                     *)
(***************************************************************************)
XAdd(stream, data, now, limit) ==
    { [log   |-> Append(stream.log, [id |-> NextId(stream, now), data |-> data]),
       floor |-> f] :
        f \in { f \in stream.floor .. Len(stream.log) + 1 :
                    f = stream.floor \/ f + limit <= Len(stream.log) + 1 } }

(***************************************************************************)
(* XRANGE stream start end COUNT count.  An interval first..last of the    *)
(* log is what Redis answers when it holds the oldest entries that are     *)
(* neither before start nor after end.  The set has exactly one element.   *)
(***************************************************************************)
IsRange(stream, start, end, count, first, last) ==
    LET Id(i) == stream.log[i].id
        size  == Len(stream.log)
    IN  /\ \A i \in stream.floor + 1 .. first - 1 : Before(Id(i), start)
        /\ \A i \in first .. size : ~ Before(Id(i), start)
        /\ \A i \in first .. last : NotAfter(Id(i), end)
        /\ last + 1 <= first + count
        /\ last < size => \/ last + 1 = first + count
                          \/ ~ NotAfter(Id(last + 1), end)

XRange(stream, start, end, count) ==
    UNION { { SubSeq(stream.log, first, last) :
                last \in { last \in first - 1 .. Len(stream.log) :
                             IsRange(stream, start, end, count, first, last) } } :
              first \in stream.floor + 1 .. Len(stream.log) + 1 }

(***************************************************************************)
(* Python: everything but the last character, followed by the last digit   *)
(* plus one.  The text ends in "10" where a 9 was.                         *)
(***************************************************************************)
increment_id(id) ==
    [id EXCEPT !.seq = IF @ % 10 = 9 THEN (@ \div 10) * 100 + 10 ELSE @ + 1]

\* TypeScript: splits at the dash and adds one to the number after it.
incrementId(id) == [id EXCEPT !.seq = @ + 1]

=============================================================================
