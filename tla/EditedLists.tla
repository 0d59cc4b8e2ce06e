----------------------------- MODULE EditedLists ----------------------------
(***************************************************************************)
(* What editing one entry of a list means, and the promise the client      *)
(* makes: every edit of a list happens at once, on the list as it is.      *)
(*                                                                         *)
(* A list is a function from the names of its entries to their values:     *)
(* principals and permission levels of a share (client/share_permission.go)*)
(* users and quota sizes of a share (client/user_quota.go), or the three   *)
(* fields of the NAS's clock settings (client/system_settings.go).  DSM    *)
(* accepts each of them only as a whole.                                   *)
(***************************************************************************)
EXTENDS Integers

CONSTANT Requests    \* the edits the configuration asks for

VARIABLE lists    \* list name -> list

\* Mutant: unlimited is no size at all.
Boundless == -1

\* The quota size that stands for "unlimited".
Unlimited == 0

----------------------------------------------------------------------------
(***************************************************************************)
(* The clock settings' enable_ntp field.  DSM has been seen to send it as  *)
(* a string, a boolean or a number; "#" marks the ones that are no strings.*)
(***************************************************************************)
ParseNTPEnabled(v) == v \in {"ntp", "true", "yes", "1", "#true", "#1"}

NTPModeString(v) ==
    CASE v = "#true" -> "ntp"
      [] v = "#false" -> "manual"
      [] v \in {"#1", "#0"} -> ""
      [] OTHER -> v

\* Mutant: "keep" on a spelling that is not a string switches off.
ResolveAsManual(v, want) ==
    IF want = "on" THEN "ntp"
    ELSE IF NTPModeString(v) # "" /\ (want = "keep" \/ ~ParseNTPEnabled(v)) THEN NTPModeString(v)
    ELSE "manual"

\* What to send when want is "keep", "on" or "off".  Only the enabled spelling is
\* known for sure, so DSM's own spelling is echoed wherever it has shown one.
ResolveNTPMode(v, want) ==
    LET mode    == NTPModeString(v)
        enabled == ParseNTPEnabled(v)
    IN  CASE want = "on" -> "ntp"
          [] want = "off" -> IF mode # "" /\ ~enabled THEN mode ELSE "manual"
          [] want = "keep" -> IF mode # "" THEN mode
                              ELSE IF enabled THEN "ntp" ELSE "manual"

----------------------------------------------------------------------------
(***************************************************************************)
(* The edits.                                                              *)
(***************************************************************************)
\* Mutant: what is there already stays.
Underlay(list, fields) ==
    [n \in DOMAIN list \union DOMAIN fields |->
        IF n \in DOMAIN list THEN list[n] ELSE fields[n]]

Overlay(list, fields) ==
    [n \in DOMAIN list \union DOMAIN fields |->
        IF n \in DOMAIN fields THEN fields[n] ELSE list[n]]

\* An entry is set in place or appended; a permission is deleted by leaving it
\* out; a quota is deleted by making it unlimited, and only if it is there; the
\* clock's mode is resolved against what DSM said.
Edited(req, list) ==
    CASE req.op = "set" -> Overlay(list, req.fields)
      [] req.op = "remove" -> [n \in DOMAIN list \ {req.name} |-> list[n]]
      [] req.op = "unlimit" -> [n \in DOMAIN list |-> IF n = req.name THEN Unlimited ELSE list[n]]
      [] req.op = "clock" ->
            [Overlay(list, req.fields) EXCEPT !.enable_ntp =
                ResolveNTPMode(list.enable_ntp, req.want)]

\* One operation's whole edit, on the list as it is.
Edit(req) == lists' = [lists EXCEPT ![req.list] = Edited(req, @)]

AnEdit == \E req \in Requests : Edit(req)
=============================================================================
