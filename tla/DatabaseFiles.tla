----------------------------- MODULE DatabaseFiles -----------------------------
(* DatabaseStoredFile: a file whose content is a row of web2py_filesystem, or *)
(* of a file on disk until there is a row. Whoever opens it has its content,  *)
(* and writes it back on closing, whether it changed or not.                  *)
EXTENDS Calls

CONSTANTS Modes, Rows1, Disks, Users, Bytes, MaxLength,
          MaxClosed      \* closings: bounds the runs

(* A content is a sequence of numbers.                                        *)
ASSUME ContentsAssumption == Rows1 \cup Disks \subseteq Seq(Int) /\ Bytes \subseteq Int

Missing == <<-1>>
Newline == 10
Reading == {"r", "rw", "rb", "a", "ab"}
MustExist == {"r", "rw", "rb"}
NotOpen == [open |-> FALSE]
Opened1(file) == IF file.row # Missing THEN file.row ELSE file.disk
exists(file) == file.disk # Missing \/ file.row # Missing
(* held, got and since are told for the properties: the content found, what   *)
(* was read of it, and how many had closed before.                            *)
Handle(mode, content, since) == [open |-> TRUE, mode |-> mode, data |-> content, p |-> 0, held |-> content, got |-> <<>>, since |-> since]
ReadableBy(mode, file) == mode \notin MustExist \/ exists(file)
Open(file, user, mode) ==
    LET content == IF mode \in Reading /\ exists(file) THEN Opened1(file) ELSE <<>>
    IN [file EXCEPT !.handles[user] = Handle(mode, content, file.closed)]
Took(h, upto) == [h EXCEPT !.p = upto, !.got = @ \o SubSeq(h.data, h.p + 1, upto)]
read(h, bytes) == Took(h, Min({h.p + bytes, Len(h.data)}))
readline(h) == LET ends == {i \in h.p + 1 .. Len(h.data) : h.data[i] = Newline} IN Took(h, IF ends = {} THEN Len(h.data) ELSE Min(ends))
write(h, data) == [h EXCEPT !.data = @ \o data]
close_connection(file, user) == [file EXCEPT !.row = file.handles[user].data, !.handles[user] = NotOpen, !.closed = @ + 1]

FileCreated ==
    /\ Waiting
    /\ \E row \in Rows1, disk \in Disks :
          Ask("file", [op |-> "create"], [row |-> row, disk |-> disk, handles |-> [u \in Users |-> NotOpen], closed |-> 0])
FileStep(user, op, file) == Ask("file", [op |-> op, user |-> user, before |-> IF op = "close" THEN answer ELSE Err], file)
FileUsed ==
    /\ asked.of = "file"
    /\ \E user \in Users :
         LET h == answer.handles[user]
         IN \/ /\ ~h.open /\ answer.closed + Cardinality({u \in Users : answer.handles[u].open}) < MaxClosed
               /\ \E mode \in Modes : ReadableBy(mode, answer) /\ FileStep(user, "open", Open(answer, user, mode))
            \/ /\ h.open
               /\ \/ \E n \in {1, Len(h.data)} : h.p < Len(h.data) /\ FileStep(user, "read", [answer EXCEPT !.handles[user] = read(h, n)])
                  \/ h.p < Len(h.data) /\ FileStep(user, "readline", [answer EXCEPT !.handles[user] = readline(h)])
                  \/ \E b \in Bytes : Len(h.data) < MaxLength /\ FileStep(user, "write", [answer EXCEPT !.handles[user] = write(h, <<b>>)])
                  \/ FileStep(user, "close", close_connection(answer, user))

-------------------------------------------------------------------------------
(* Read by bytes and by lines, the parts make up what was found and what was  *)
(* written behind it, in its order; a line ends with its newline.             *)
PartsMakeTheFile ==
    asked.of = "file" =>
        \A u \in Users : answer.handles[u].open =>
            LET h == answer.handles[u]
            IN /\ h.got = SubSeq(h.data, 1, h.p) /\ IsPrefix(h.held, h.data)
               /\ asked.x.op = "readline" /\ asked.x.user = u /\ h.p < Len(h.data) => h.data[h.p] = Newline

(* What one writes is there when it has closed, after what was there before   *)
(* unless it began anew; as long as no other closes in between, even one who  *)
(* only read, who puts back what it found.                                    *)
ClosedIsKept ==
    asked.of = "file" /\ asked.x.op = "close" =>
        LET before == asked.x.before
            h == before.handles[asked.x.user]
            was == IF h.mode \in Reading /\ exists(before) THEN Opened1(before) ELSE <<>>
        IN h.since = before.closed => answer.row = was \o SubSeq(h.data, Len(h.held) + 1, Len(h.data))
================================================================================
