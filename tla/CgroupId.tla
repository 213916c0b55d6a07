------------------------------ MODULE CgroupId ------------------------------
(***************************************************************************)
(* How the id of a container is cut out of /proc/<pid>/cgroup (util.c:     *)
(* get_cgroup_id).  What matters is where the id starts and ends, so ids   *)
(* are sequences of characters here, and MaxIdLen is small.                *)
(***************************************************************************)
EXTENDS Integers, Sequences, FiniteSets, FiniteSetsExt

CONSTANT MaxIdLen   \* MAX_CGROUP_ID_LEN, 16

ASSUME CgroupConstantsOK == MaxIdLen \in Nat \ {0}

NUL == "nul"
Newline == "nl"

\* The buffer after getline read the devices line of a process: the line ends
\* with its newline, then a NUL, then whatever was there before.
LineBuffer(id, stale) == <<"d", "/">> \o id \o <<Newline, NUL>> \o stale

\* The C string that starts at position n of a buffer.
StringAt(buf, n) ==
  LET ends == {m \in n .. Len(buf) : buf[m] = NUL}
  IN IF ends = {} THEN SubSeq(buf, n, Len(buf)) ELSE SubSeq(buf, n, Min(ends) - 1)

Truncate(s, n) == SubSeq(s, 1, IF Len(s) < n THEN Len(s) ELSE n)

\* Mutant: the text from the last "/" on.
get_cgroup_id_slash(buf, id_len) ==
  LET slash == Max({m \in 1 .. Len(buf) : buf[m] = "/"})
  IN Truncate(StringAt(buf, slash), id_len - 1)

\* The text after the last "/" of the whole buffer, in a buffer of id_len bytes.
get_cgroup_id(buf, id_len) ==
  LET slash == Max({m \in 1 .. Len(buf) : buf[m] = "/"})
  IN Truncate(StringAt(buf, slash + 1), id_len - 1)

\* An id as /proc/<pid>/cgroup shows it: characters of one line, after a "/".
IsId(id) == id \in Seq(STRING) /\ \A k \in 1 .. Len(id) : id[k] \notin {NUL, Newline, "/"}

\* What follows the line in getline's buffer has no "/" in it.
IsTail(s) == s \in Seq(STRING) /\ \A k \in 1 .. Len(s) : s[k] # "/"

=============================================================================
