------------------------------ MODULE Exports -------------------------------
(***************************************************************************)
(* What the exports of src/src/lib.rs store into a buffer of the caller,   *)
(* whose size the caller states.  A reply is a status and the stores: a    *)
(* function from the offsets written to "data" or "nul".                   *)
(***************************************************************************)
EXTENDS Naturals

Reply(status, stores) == [status |-> status, stores |-> stores]
Nothing == [i \in {} |-> "data"]
Data(n) == [i \in 0..(n - 1) |-> "data"]
CString(n) == [i \in 0..n |-> IF i = n THEN "nul" ELSE "data"]

AtMostSize(a, b) == IF a < b THEN a ELSE b

\* bufsize is taken as 0 where the code also tests for a null buffer.
OutU32(bufsize) ==
    IF bufsize < 4 THEN Reply("param", Nothing) ELSE Reply("ok", Data(4))

OutU64(bufsize) ==
    IF bufsize < 8 THEN Reply("param", Nothing) ELSE Reply("ok", Data(8))

\* Mutant of OutCstr: no room is kept for the terminator.
OutCstrNoRoom(bufsize, len) ==
    IF bufsize = 0 THEN Reply("param", Nothing)
    ELSE Reply("ok", CString(AtMostSize(len, bufsize)))

\* len is the length of the text.
OutCstr(bufsize, len) ==
    IF bufsize = 0 THEN Reply("param", Nothing)
    ELSE Reply("ok", CString(AtMostSize(len, bufsize - 1)))

ErrorTextLen(err) ==
    CASE err = "ok" -> 2 [] err = "param" -> 18 [] err = "nomsg" -> 21
      [] err = "notfound" -> 26 [] OTHER -> 13

\* canGetErrorText: success even without a buffer.
GetErrorText(err, bufsize) ==
    Reply("ok", IF bufsize = 0 THEN Nothing
                ELSE CString(AtMostSize(bufsize - 1, ErrorTextLen(err))))

\* canGetChannelData; digits is the length of the channel's number in decimal.
GetChannelData(item, digits, bufsize) ==
    CASE item = 13 -> OutCstr(bufsize, 15 + digits)
      [] item = 26 -> OutCstr(bufsize, 22)
      [] item = 24 -> OutCstr(bufsize, 10)
      [] item \in {1, 3, 4, 5, 6} -> OutU32(bufsize)
      [] item = 7 -> OutU64(bufsize)
      [] OTHER -> Reply("param", Nothing)

\* canIoCtl on an open channel.  What 10 does to the ring is an action of
\* HandleTable.
IoCtl(func, bufsize) ==
    CASE func \in {6, 7, 10, 11, 13} -> Reply("ok", Nothing)
      [] func \in {8, 9, 12} -> OutU32(bufsize)
      [] OTHER -> Reply("not_implemented", Nothing)

\* canGetBusStatistics clears as much as the caller says there is.
GetBusStatistics(bufsize) == Reply("ok", Data(bufsize))

\* The largest text is 26 characters; larger buffers hold no new case.
BufSizes == 0..28

\* What can be answered into a buffer of that size.
Replies(bufsize) ==
    LET answer(text, r) == [size |-> bufsize, text |-> text, stores |-> r.stores]
    IN  {answer(TRUE, GetErrorText(e, bufsize)) :
            e \in {"ok", "param", "nomsg", "notfound", "other"}}
        \cup {answer(TRUE, GetChannelData(i, d, bufsize)) : i \in {13, 24, 26}, d \in 1..11}
        \cup {answer(FALSE, GetChannelData(i, 1, bufsize)) : i \in 0..12}
        \cup {answer(FALSE, IoCtl(f, bufsize)) : f \in 0..14}
        \cup {answer(FALSE, GetBusStatistics(bufsize))}

NoReply == [size |-> 0, text |-> FALSE, stores |-> Nothing]
=============================================================================
