-------------------------------- MODULE MCWire --------------------------------
(* Messages with small, with extreme and with magic-like numbers; a byte has  *)
(* seven bits, so that a 32-bit number fits TLC's integers.                   *)
EXTENDS Wire

Top == Power[4] - 1
M(type, fields)        == [type |-> type, fields |-> fields, text |-> <<>>]
WithText(type, fields, text) == [type |-> type, fields |-> fields, text |-> text]

SomeMessages ==
  { M("HelloRequest", <<1, 1, 0, 5, 0>>),
    M("HelloResponse", <<1, 1, 0, 1, 0, 0, 5, Top>>),
    M("SyncRequest", <<2>>),
    M("SyncBegin", <<1, 64, 0>>),
    WithText("OutputEndpoint", <<1, 1, 1>>, <<65>>),
    WithText("InputEndpoint", <<Top, 1, 2>>, <<65, 83>>),
    M("CurrentOutput", <<1, 0, 2, 1>>),
    M("CurrentInput", <<1, 1, 1, 0>>),
    M("SyncEnd", <<Top>>),
    M("SetOutputRequest", <<Top, 1, 1>>),
    M("SetInputRequest", <<1, 1, 2>>),
    M("SetResult", <<1, 0, 0, 0, 1>>),
    M("SetResult", <<1, 1, 4, 1, 1>>),
    M("Ping", <<65 + 83 * Base>>),
    M("Pong", <<0>>),
    WithText("Error", <<16, 2, 0, 0, 0>>, <<>>),
    WithText("Error", <<1, 127, 0, 0, 1>>, <<1>>) }

LastMessages == { M("Pong", <<0>>) }

\* Bytes without a magic, ending in half of one, with one, with a length that
\* cannot be, with an unknown type, and with an endpoint that has no name.
SomeNoise ==
  { <<83, 65>>, <<65, 65>>, <<0, 65, 1>>, <<65, 83>>, <<65, 83, 1, 48, 127, 127>>,
    <<65, 83, 65, 83, 1, 49, 65, 83>>, <<65, 65, 83, 1, 126, 0, 0>>,
    <<65, 83, 1, MessageType["OutputEndpoint"], 8, 0, 1, 0, 0, 0, 1, 0, 0, 0>> }
=============================================================================
