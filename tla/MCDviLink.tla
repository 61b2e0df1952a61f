------------------------------ MODULE MCDviLink ------------------------------
(* A small instance of DviLink: the polls alone, and one poll beside the    *)
(* slots of a periodic engine or beside a capture.                          *)
EXTENDS DviLink

Scenario(ops, polls, most, trouble) ==
  [ops |-> ops, polls |-> polls, sends |-> most, trouble |-> trouble]

PollSet == {<<"a">>, <<"b">>, <<"a", "b">>}
OneSlot == << <<"a", "b">> >>
PollsAndOneMore == {Scenario({"poll"}, PollSet, 2, 2),
                    Scenario({"poll", "slots"}, {<<"a">>}, 1, 1),
                    Scenario({"poll", "capture"}, {<<"a">>}, 1, 1)}
==============================================================================
