--------------------------- MODULE MCSheetsSetup ---------------------------
(* Layouts for TLC: the first grows at its end and brings a second stream,   *)
(* then changes an enum, then inserts a column, as a catalog in alphabetical *)
(* order does.                                                               *)
EXTENDS SheetsSetup

Of(columns, account) ==
    [columns |-> columns, enum |-> [f \in {"id", "a", "b", "acct"} |->
                                      IF f = "acct" THEN account ELSE None]]

Key == <<"id", "acct">>

Grown ==
    <<[s |-> Of(<<"id", "a", "acct">>, "1"),           t |-> Of(<<>>, None)],
      [s |-> Of(<<"id", "a", "acct", "b">>, "1"),      t |-> Of(<<"id", "acct">>, "1")],
      [s |-> Of(<<"id", "a", "acct", "b">>, "2"),      t |-> Of(<<"id", "acct">>, "1")],
      [s |-> Of(<<"id", "a", "b", "acct">>, "2"),      t |-> Of(<<"id", "acct">>, "1")]>>

Sums == {{<<"s", "a">>}, {<<"s", "b">>, <<"t", "id">>}}
=============================================================================
