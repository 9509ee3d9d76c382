----------------------------- MODULE MCConsole ------------------------------
(* Small instances of the console.  In the first workload one process reads  *)
(* from a keyboard with two control keys, of which one sends 0xE0 first, a   *)
(* shift key and caps lock; in the second two processes, one of which is     *)
(* killed, read from the serial port.                                        *)
EXTENDS Console

Keyboard == {<<"ctl", FALSE>>, <<"ctl", TRUE>>, <<"shift", FALSE>>, <<"caps", FALSE>>,
             <<"d", FALSE>>, <<"enter", TRUE>>}
TwoLoads == {[keys |-> Keyboard, serial |-> {}, readers |-> {1}, killed |-> {}],
             [keys |-> {}, serial |-> {"d", "CR", "EOF", "^U", "^H", "^P", "NUL"},
              readers |-> {1, 2}, killed |-> {2}]}
OneOutput == {<<"d", "NL">>}
=============================================================================
