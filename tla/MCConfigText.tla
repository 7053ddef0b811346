----------------------------- MODULE MCConfigText -----------------------------
(***************************************************************************)
(* Instances of ConfigText: every definition of up to MaxLines lines, alone *)
(* and after a complete definition of a logger to the standard output.     *)
(***************************************************************************)
EXTENDS ConfigText

AllSymbols == Lower \cup Upper \cup {" ", NL, "{", "}", "=", "#"}

AllBytes == AllSymbols \cup {"0xff", "0xfe"}

SomeLines == {<<"destination", "file">>, <<"destination", "stdout">>, <<"filename", "x">>,
              <<"append", "true">>, <<"format", "x">>, <<"severity", "warn">>}

StdoutLines == {<< <<"destination", "stdout">>, <<"format", "x">>, <<"severity", "warn">> >>}

OldNames == {<<"X">>}

SomeBytes == {"x", "append", " ", NL, "{", "}", "=", "0xff", "0xfe"}

=============================================================================
