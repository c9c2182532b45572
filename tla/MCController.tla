---------------------------- MODULE MCController ----------------------------
(* Constants for the runs of Controller.                                   *)
EXTENDS Controller

\* NeatoController, whose answers have several lines.
Neato == [REQUEST_END |-> <<LF>>, RESPONSE_END |-> <<SUB>>, readCommand |-> TRUE,
          body |-> <<"text", "lf", "text", "lf">>]

\* HokuyoController, whose REQUEST_END is a part of its RESPONSE_END.
Hokuyo == [REQUEST_END |-> <<LF>>, RESPONSE_END |-> <<LF, LF>>, readCommand |-> TRUE,
           body |-> <<"text", "lf", "text", "text">>]

\* The default delimiters, with a device that answers by a line and does not echo.
Plain == [REQUEST_END |-> <<LF>>, RESPONSE_END |-> <<LF>>, readCommand |-> FALSE,
          body |-> <<"text", "text">>]

\* The default delimiters and an echo (SocketController and SerialController).
Default == [REQUEST_END |-> <<LF>>, RESPONSE_END |-> <<LF>>, readCommand |-> TRUE,
            body |-> <<"text", "text">>]

OfNeato == {Neato}
All == {Neato, Hokuyo, Plain, Default}
=============================================================================
