----------------------------- MODULE MCPrograms -----------------------------
(* An instance of Programs for TLC: with END = 12 there are the odd primes 3  *)
(* to 11 and the composite 9; the filter of 7 is the first to print what it   *)
(* passes on, so that three pipes are enough, and with all thirteen the last  *)
(* filter finds its pipe at its end.                                          *)
(*                                                                            *)
(* find looks for x in a tree that goes one level deeper than it has          *)
(* descriptors for, so that the third level is the last where stat() works,   *)
(* with a second directory after that one, a directory with a blank in its    *)
(* name, and entries that come and go before, between and behind those that   *)
(* stay.                                                                      *)
EXTENDS Programs, Sequences, TLC

Is(name, node) == [name |-> name, node |-> node]
Gone == [name |-> <<>>, node |-> "none"]
Dir(self, above, rest) == <<Is(<<".">>, self), Is(<<".", ".">>, above)>> \o rest

Tree ==
  [root  |-> Dir("root", "root", <<Gone, Is(<<"a">>, "deep"), Is(<<"x">>, "file"),
                                   Is(<<"b", " ", "c">>, "blank"), Is(<<"b">>, "last")>>),
   deep  |-> Dir("deep", "root", <<Is(<<"a">>, "deep2"), Is(<<"x">>, "device")>>),
   deep2 |-> Dir("deep2", "deep", <<Is(<<"a">>, "deep3"), Is(<<"x">>, "file")>>),
   deep3 |-> Dir("deep3", "deep2", <<Is(<<"a">>, "deep4"), Is(<<"x">>, "file")>>),
   deep4 |-> Dir("deep4", "deep3", <<Is(<<"x">>, "file")>>),
   blank |-> Dir("blank", "root", <<Is(<<"x">>, "file")>>),
   last  |-> Dir("last", "root", <<Is(<<"y">>, "file"), Is(<<"x">>, "file")>>)]

X == <<"x">>

Kinds == [n \in DOMAIN Tree |-> "dir"] @@ [file |-> "file", device |-> "device"]

ComeAndGo == {<<"root", Is(<<"y">>, "device")>>, <<"last", Is(<<"y">>, "file")>>,
              <<"last", Is(<<"x">>, "file")>>, <<"deep3", Is(<<"y">>, "file")>>}
=============================================================================
