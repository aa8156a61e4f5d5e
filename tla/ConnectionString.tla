-------------------------- MODULE ConnectionString --------------------------
(***************************************************************************)
(* XMySQL::SetConnectionString: parameter=value;parameter=value;...        *)
(*                                                                         *)
(* A string is a sequence of tokens: "=", ";" and words, which are names   *)
(* of parameters (in lower case: _stricmp), numbers or other values.       *)
(* Parameters and values are shorter than the buffers.                     *)
(***************************************************************************)
EXTENDS Integers, Sequences, FiniteSetsExt, TLC

CONSTANT Strings   \* the strings it is called with

ASSUME StringsAssumption == Strings \subseteq Seq(STRING)

EqualSign == "="
Semicolon == ";"

Member == [host |-> "m_sHost", server |-> "m_sHost", database |-> "m_sDB",
           user |-> "m_sUser", uid |-> "m_sUser", password |-> "m_sPasswd",
           pwd |-> "m_sPasswd", port |-> "m_iPort",
           connecttimeout |-> "m_iConnectTimeout", readtimeout |-> "m_iReadTimeout",
           writetimeout |-> "m_iWriteTimeout", charset |-> "m_sCharset"]

Integral == {"m_iPort", "m_iConnectTimeout", "m_iReadTimeout", "m_iWriteTimeout"}

Numbers == ("5" :> 5) @@ ("20" :> 20) @@ ("3306" :> 3306)

\* atoi: the number the text begins with, or 0.
atoi(v) == IF v[1] \in DOMAIN Numbers THEN Numbers[v[1]] ELSE 0

ValueFor(m, v) == IF m \in Integral THEN atoi(v) ELSE v

VARIABLES
  given,         \* the string
  szConnection,  \* the part still to be read
  settings,      \* the members
  pc

vars == <<given, szConnection, settings, pc>>

Defaults ==
  [m \in {Member[p] : p \in DOMAIN Member} |->
     IF m \in Integral THEN 0
     ELSE IF m = "m_sCharset" THEN <<"utf8">> ELSE << >>]

Init ==
  /\ given \in Strings
  /\ szConnection = given
  /\ settings = Defaults
  /\ pc = "loop"

\* The first place of token t in s from place n on; behind the end if there is
\* none.
find(s, t, n) == Min({k \in n..Len(s) : s[k] = t} \cup {Len(s) + 1})

\* %[^=]=%[^;] finds both parts, and neither is empty.
scanned ==
  LET eq == find(szConnection, EqualSign, 1)
  IN  eq > 1 /\ eq < Len(szConnection) /\ szConnection[eq + 1] # Semicolon

szParameter == SubSeq(szConnection, 1, find(szConnection, EqualSign, 1) - 1)

szValue ==
  LET eq == find(szConnection, EqualSign, 1)
  IN  SubSeq(szConnection, eq + 1, find(szConnection, Semicolon, eq) - 1)

\* Mutation: the next parameter is looked for behind the value.
Mut_Scan ==
  /\ pc = "loop" /\ scanned
  /\ settings' = IF Len(szParameter) = 1 /\ szParameter[1] \in DOMAIN Member
                 THEN LET m == Member[szParameter[1]]
                      IN  [settings EXCEPT ![m] = ValueFor(m, szValue)]
                 ELSE settings
  /\ LET next == find(szConnection, Semicolon, find(szConnection, EqualSign, 1))
     IN  /\ szConnection' = SubSeq(szConnection, next + 1, Len(szConnection))
         /\ pc' = IF next > Len(szConnection) THEN "done" ELSE "loop"
  /\ UNCHANGED given

\* strchr looks for the next ; from the beginning of the parameter, which may
\* itself contain one.
Scan ==
  /\ pc = "loop" /\ scanned
  /\ settings' = IF Len(szParameter) = 1 /\ szParameter[1] \in DOMAIN Member
                 THEN LET m == Member[szParameter[1]]
                      IN  [settings EXCEPT ![m] = ValueFor(m, szValue)]
                 ELSE settings
  /\ LET next == find(szConnection, Semicolon, 1)
     IN  /\ szConnection' = SubSeq(szConnection, next + 1, Len(szConnection))
         /\ pc' = IF next > Len(szConnection) THEN "done" ELSE "loop"
  /\ UNCHANGED given

Stop ==
  /\ pc = "loop" /\ ~scanned
  /\ pc' = "done"
  /\ UNCHANGED <<given, szConnection, settings>>

Returned == pc = "done" /\ UNCHANGED vars

Next == Scan \/ Stop \/ Returned

Spec == Init /\ [][Next]_vars
-----------------------------------------------------------------------------
\* The places where an item begins, and the items with a = in them.
Items == {1} \cup {k + 1 : k \in {n \in 1..Len(given) : given[n] = Semicolon}}
endOf(b) == find(given, Semicolon, b) - 1
equals(b) == find(given, EqualSign, b)
Assignments == {b \in Items : equals(b) <= endOf(b)}

\* An item without a name or without a value.
Incomplete == {b \in Assignments : equals(b) = b \/ equals(b) = endOf(b)}

\* The items that set member m: those before the first incomplete one.
Setting(m) ==
  {b \in Assignments : /\ \A c \in Incomplete : b < c
                       /\ equals(b) = b + 1 /\ given[b] \in DOMAIN Member
                       /\ Member[given[b]] = m}

\* Every member has the value of the last item that names it, under any of its
\* names.  Items without a = do no harm.  An item without value, such as an
\* empty password, ends the reading: what follows it is not set.
SettingsExact ==
  pc = "done" =>
    \A m \in DOMAIN Defaults :
      settings[m] =
        IF Setting(m) = {} THEN Defaults[m]
        ELSE LET b == Max(Setting(m))
             IN  ValueFor(m, SubSeq(given, b + 2, endOf(b)))
=============================================================================
