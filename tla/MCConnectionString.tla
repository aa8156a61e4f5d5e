------------------------ MODULE MCConnectionString --------------------------
(***************************************************************************)
(* All short strings, and the one MZHandler::Go uses.                      *)
(***************************************************************************)
EXTENDS ConnectionString

Tokens == {"=", ";", "host", "server", "5"}

GoString ==
  <<"server", "=", "127.0.0.1", ";", "port", "=", "3306", ";", "user", "=", "root",
    ";", "pwd", "=", "secret", ";", "connecttimeout", "=", "5", ";", "readtimeout",
    "=", "20", ";", "writetimeout", "=", "20", ";", "charset", "=", "utf8">>

PortString == <<"port", "=", "5", ";", "pwd", "=", ";", "port", "=", "20">>

MCStrings == {GoString, PortString} \cup UNION {[1..n -> Tokens] : n \in 0..6}
=============================================================================
