------------------------------- MODULE MCTftp -------------------------------
(***************************************************************************)
(* One client that may repeat its request and its acknowledgements, two    *)
(* transfers at a time, block numbers 0 to 2.  The image has two blocks of *)
(* the default size and more blocks than there are numbers at size one.    *)
(***************************************************************************)
EXTENDS Tftp

MCContent ==
    [f \in File |-> CASE f = "image" -> <<"a", "b", "c">>
                      [] f = "text"  -> <<"a", LF, "b">>]

Rrq(file, netascii, blksize, windowsize, more) ==
    [op |-> "RRQ", file |-> file, netascii |-> netascii, blksize |-> blksize,
     windowsize |-> windowsize, more |-> more]

MCRequest ==
    { Rrq("image", FALSE, None, None, FALSE), Rrq("image", FALSE, 3, 2, FALSE),
      Rrq("image", FALSE, 0, 1, TRUE), Rrq("text", TRUE, None, 3, FALSE),
      Rrq("missing", FALSE, None, None, FALSE),
      [Rrq("image", FALSE, None, None, FALSE) EXCEPT !.op = "other"] }

=============================================================================
