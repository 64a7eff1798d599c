---------------------------- MODULE PairingProofs ----------------------------
(***************************************************************************)
(* Proofs about Pairing, for any number of requests at a time, any tokens, *)
(* codes, devices and window lifetime, and every bound.                    *)
(*                                                                         *)
(* The sessions: a token is in one of a few places on its way from the     *)
(* approval to the file and from the logout out of it, and as long as no   *)
(* two persists overlap the copy one of them carries agrees with what the  *)
(* devices were told (CopyInv).  The settings: as long as no two writers   *)
(* overlap there is one writer, and the file is empty while it writes      *)
(* (SettingsInv).                                                          *)
(***************************************************************************)
EXTENDS Pairing, TLAPS

Places == {"idle", "auth", "handle", "snapshot", "truncate", "write",
           "ctruncate", "cwrite"}
Window == [id : Nat, code : Codes \cup {NoCode}, expires : Nat]
Carried == [pc : Places, op : HttpOps \cup AdminOps \cup {"none"},
            token : Tokens \cup {NoToken}, code : Codes \cup {NoCode},
            data : SUBSET Tokens, gone : SUBSET (Tokens \cup {NoToken}), cfg : Settings]

(* The types of the variables. *)
TypeOK ==
  /\ up \in BOOLEAN /\ runtime \in Settings
  /\ approved \in SUBSET Tokens /\ store \in SUBSET Tokens
  /\ window \in Window /\ mutex \in Requests \cup {NoOne}
  /\ file \in [text : {"whole", "empty", "garbled"}, cfg : Settings]
  /\ acked \in Settings /\ clash \in SUBSET {"overlap", "cut"}
  /\ clock \in Nat /\ windows \in Nat /\ restarts \in Nat /\ count \in Nat
  /\ req \in [Requests -> Carried]
  /\ issued \in SUBSET [token : Tokens, at : Nat, by : Window]
  /\ paired \in SUBSET Tokens
  /\ leaving \in SUBSET (Tokens \cup {NoToken}) /\ revoked \in SUBSET (Tokens \cup {NoToken})
  /\ raced \in BOOLEAN

(* A window has a number of its own, and it stands behind one approval at    *)
(* most, made before it expired; one that is open has not been used.         *)
WindowInv ==
  /\ window # NoWindow => window.id \in 1 .. windows
  /\ window.id # 0 => \A i \in issued : i.by.id # window.id
  /\ \A i \in issued : i.by # NoWindow => i.by.id \in 1 .. windows /\ i.at < i.by.expires
  /\ \A i, j \in issued : i.by.id # 0 /\ i.by.id = j.by.id => i = j

Saving(r) == req[r].pc \in {"snapshot", "truncate", "write"}
IssuedTokens == {i.token : i \in issued}

(* Every token on the move was issued; a request carries none before it is   *)
(* approved, and only a logout that has one goes on to the file.             *)
TokenInv ==
  /\ approved \cup store \cup paired \subseteq IssuedTokens
  /\ revoked \subseteq IssuedTokens
  /\ \A r \in Requests :
       /\ req[r].token \in IssuedTokens \cup {NoToken}
       /\ req[r].data \subseteq IssuedTokens
       /\ req[r].gone \subseteq revoked
       /\ req[r].op = "pair" /\ ~Saving(r) => req[r].token = NoToken
       /\ Saving(r) => req[r].op \in {"pair", "logout"} /\ req[r].token # NoToken
       /\ ~up => req[r] = Idle

(* While its request persists, a paired token is approved or was logged out  *)
(* again, and a revoked one is not approved.                                 *)
MoveInv ==
  \A r \in Requests : Saving(r) =>
    /\ req[r].op = "pair" => req[r].token \in approved \cup leaving
    /\ req[r].op = "logout" => req[r].token \in leaving \ approved

(* A token whose logout was answered comes back only with a restart, from a  *)
(* file that a raced persist left.                                           *)
OutInv ==
  /\ revoked \subseteq leaving
  /\ \A t \in revoked \cap approved : raced /\ restarts > 0
  /\ ~up /\ restarts = 0 => store = {}

(* Without a race one request at most persists, and its copy holds what the  *)
(* devices were told, as the file does when nobody writes it.                *)
CopyInv ==
  ~raced =>
    /\ \A r, o \in Requests : Persisting(r) /\ Persisting(o) => r = o
    /\ \A r \in Requests : Persisting(r) =>
         /\ paired \ leaving \subseteq req[r].data
         /\ revoked \cap req[r].data = {}
         /\ req[r].op = "pair" => req[r].token \in req[r].data \cup leaving
         /\ req[r].op = "logout" => req[r].token \notin req[r].data
    /\ \A r \in Requests : req[r].pc = "write" => store = {}
    /\ up => paired \ leaving \subseteq approved
    /\ (\A r \in Requests : req[r].pc # "write") =>
         paired \ leaving \subseteq store /\ revoked \cap store = {}

Good(c) == validate(c) /\ ~RefusesOpen(c)

(* The settings in use, those being written and, without an overlap, those   *)
(* in the file are good; one writer is at work, and it finds the file empty. *)
SettingsInv ==
  /\ Good(runtime)
  /\ \A r \in Requests : SavingConfig(r) => Good(req[r].cfg)
  /\ "overlap" \notin clash =>
       /\ \A r, o \in Requests : SavingConfig(r) /\ SavingConfig(o) => r = o
       /\ \A r \in Requests : req[r].pc = "cwrite" => file.text = "empty"
       /\ file.text # "garbled" /\ Good(Load(file))
  /\ (clash = {} /\ \A r \in Requests : req[r].pc # "cwrite") => Load(file) = Merged(acked)

SessionInv == TokenInv /\ MoveInv /\ OutInv /\ CopyInv /\ LogoutHolds
IInv == TypeOK /\ WindowInv /\ SessionInv /\ SettingsInv

-----------------------------------------------------------------------------
(* Types.                                                                  *)

(* The appliance's own settings, and what a thread at rest carries. *)
LEMMA IdleTyped ==
  Profile \in Settings /\ Good(Profile) /\ Idle \in Carried
<1>1. PICK d \in Devices : Profile = Appliance(d)
  BY PairingAssumption DEF Profile
<1>2. Profile \in Settings
  BY <1>1 DEF Appliance, Settings
<1>. QED BY <1>1, <1>2 DEF Idle, Carried, Places, Good, validate, RefusesOpen, Appliance

(* Merging changes the socket of settings, if it is none, and nothing else. *)
LEMMA MergedFacts ==
  ASSUME NEW c \in Settings
  PROVE  /\ Merged(c) \in Settings /\ (Good(c) => Good(Merged(c)))
         /\ Merged(c).socket = IF c.socket = "none" THEN Profile.socket ELSE c.socket
         /\ \A f \in DOMAIN c : f # "socket" => Merged(c)[f] = c[f]
<1>1. Profile.socket \in {"none", "usual", "own"}
  BY IdleTyped DEF Settings
<1>. HIDE DEF Profile
<1>. QED BY <1>1 DEF Merged, Settings, Good, validate, RefusesOpen

(* A step of a thread changes what this thread carries and nothing else. *)
LEMMA StepFacts ==
  ASSUME TypeOK, NEW r \in Requests, NEW upd \in Carried, Step(r, upd)
  PROVE  /\ req' \in [Requests -> Carried]
         /\ req'[r] = upd
         /\ \A o \in Requests : o # r => req'[o] = req[o]
BY DEF TypeOK, Step

(* A thread that goes on keeps what it carries. *)
LEMMA GoesFacts ==
  ASSUME TypeOK, NEW r \in Requests, NEW pc \in Places, Goes(r, pc)
  PROVE  /\ req' \in [Requests -> Carried]
         /\ req'[r] \in Carried
         /\ req'[r].pc = pc /\ req'[r].op = req[r].op
         /\ req'[r].token = req[r].token /\ req'[r].code = req[r].code
         /\ req'[r].data = req[r].data /\ req'[r].gone = req[r].gone
         /\ req'[r].cfg = req[r].cfg
         /\ \A o \in Requests : o # r => req'[o] = req[o]
<1>1. req[r] \in Carried
  BY DEF TypeOK
<1>2. [req[r] EXCEPT !.pc = pc] \in Carried
  BY <1>1 DEF Carried
<1>3. Step(r, [req[r] EXCEPT !.pc = pc])
  BY DEF Goes
<1>4. /\ req' \in [Requests -> Carried]
      /\ req'[r] = [req[r] EXCEPT !.pc = pc]
      /\ \A o \in Requests : o # r => req'[o] = req[o]
  BY <1>2, <1>3, StepFacts
<1>. QED BY <1>1, <1>4 DEF Carried

(* A thread that is done carries nothing. *)
LEMMA DoneFacts ==
  ASSUME TypeOK, NEW r \in Requests, Rests(r)
  PROVE  /\ req' \in [Requests -> Carried]
         /\ req'[r] = Idle
         /\ \A o \in Requests : o # r => req'[o] = req[o]
BY IdleTyped, StepFacts DEF Rests

(* What a thread carries after it arrived. *)
LEMMA ArriveFacts ==
  ASSUME TypeOK, NEW r \in Requests, ArriveHttp(r) \/ ArriveAdmin(r)
  PROVE  /\ req'[r].pc \in {"auth", "handle"} /\ req'[r].data = {}
         /\ req'[r].token \in paired \cup {NoToken}
         /\ req'[r].gone \subseteq revoked
         /\ req'[r].op = "pair" => req'[r].token = NoToken
         /\ req'[r].pc = "handle" => req'[r].gone = {}
         /\ \A o \in Requests : o # r => req'[o] = req[o]
<1>1. CASE ArriveHttp(r)
  <2>1. PICK op \in HttpOps, t \in paired \cup {NoToken}, c \in Codes :
          /\ op = "pair" => t = NoToken
          /\ Step(r, [Idle EXCEPT !.pc = "auth", !.op = op, !.token = t,
                               !.code = c, !.gone = revoked \cap {t}])
    BY <1>1 DEF ArriveHttp
  <2>. DEFINE upd == [Idle EXCEPT !.pc = "auth", !.op = op, !.token = t,
                                  !.code = c, !.gone = revoked \cap {t}]
  <2>2. upd \in Carried
    BY IdleTyped DEF Carried, Places, TypeOK
  <2>3. upd.pc = "auth" /\ upd.op = op /\ upd.token = t /\ upd.data = {}
        /\ upd.gone = revoked \cap {t}
    BY DEF Idle
  <2>4. Step(r, upd)
    BY <2>1
  <2>. HIDE DEF upd
  <2>5. req'[r] = upd /\ \A o \in Requests : o # r => req'[o] = req[o]
    BY <2>2, <2>4, StepFacts
  <2>. QED BY <2>1, <2>3, <2>5
<1>2. CASE ArriveAdmin(r)
  <2>1. PICK op \in AdminOps : Step(r, [Idle EXCEPT !.pc = "handle", !.op = op])
    BY <1>2 DEF ArriveAdmin
  <2>. DEFINE upd == [Idle EXCEPT !.pc = "handle", !.op = op]
  <2>2. upd \in Carried
    BY IdleTyped DEF Carried, Places
  <2>3. upd.pc = "handle" /\ upd.token = NoToken /\ upd.data = {} /\ upd.gone = {}
    BY DEF Idle
  <2>4. Step(r, upd)
    BY <2>1
  <2>. HIDE DEF upd
  <2>5. req'[r] = upd /\ \A o \in Requests : o # r => req'[o] = req[o]
    BY <2>2, <2>4, StepFacts
  <2>. QED BY <2>1, <2>3, <2>5
<1>. QED BY <1>1, <1>2

(* What a thread carries after it copied the set. *)
LEMMA SnapshotFacts ==
  ASSUME TypeOK, NEW r \in Requests, Snapshot(r)
  PROVE  /\ req'[r].pc = "truncate" /\ req'[r].data = approved
         /\ req'[r].op = req[r].op /\ req'[r].token = req[r].token
         /\ req'[r].gone = req[r].gone
         /\ \A o \in Requests : o # r => req'[o] = req[o]
<1>1. req[r] \in Carried
  BY DEF TypeOK
<1>. DEFINE upd == [req[r] EXCEPT !.pc = "truncate", !.data = approved]
<1>2. upd \in Carried
  BY <1>1 DEF Carried, Places, TypeOK
<1>3. upd.pc = "truncate" /\ upd.data = approved /\ upd.op = req[r].op
      /\ upd.token = req[r].token /\ upd.gone = req[r].gone
  BY <1>1 DEF Carried
<1>4. Step(r, upd)
  BY DEF Snapshot
<1>. HIDE DEF upd
<1>5. req'[r] = upd /\ \A o \in Requests : o # r => req'[o] = req[o]
  BY <1>2, <1>4, StepFacts
<1>. QED BY <1>3, <1>5

(* Approval lets in a token nobody had before, or nobody. *)
LEMMA ApproveFacts ==
  ASSUME TypeOK, NEW r \in Requests, approve(r)
  PROVE  /\ \A o \in Requests : o # r => req'[o] = req[o]
         /\ \/ req'[r] = Idle /\ UNCHANGED <<approved, issued>>
            \/ \E t \in Tokens \ IssuedTokens :
                 /\ approved' = approved \cup {t}
                 /\ IssuedTokens' = IssuedTokens \cup {t}
                 /\ req'[r].pc = "snapshot" /\ req'[r].op = "pair"
                 /\ req'[r].token = t /\ req'[r].data = req[r].data
                 /\ req'[r].gone = req[r].gone
<1>1. req[r] \in Carried
  BY DEF TypeOK
<1>2. CASE OneTimeValid(r) \/ MasterValid(r)
  <2>1. PICK t \in Tokens \ IssuedTokens :
          /\ approved' = approved \cup {t}
          /\ issued' = issued \cup
               {[token |-> t, at |-> clock,
                 by |-> IF OneTimeValid(r) THEN window ELSE NoWindow]}
          /\ Step(r, [req[r] EXCEPT !.pc = "snapshot", !.token = t])
    BY <1>2 DEF approve, IssuedTokens
  <2>. DEFINE upd == [req[r] EXCEPT !.pc = "snapshot", !.token = t]
  <2>2. upd \in Carried
    BY <1>1 DEF Carried, Places
  <2>3. upd.pc = "snapshot" /\ upd.op = "pair" /\ upd.token = t /\ upd.data = req[r].data
        /\ upd.gone = req[r].gone
    BY <1>1 DEF approve, Carried
  <2>4. Step(r, upd)
    BY <2>1
  <2>. HIDE DEF upd
  <2>5. req'[r] = upd /\ \A o \in Requests : o # r => req'[o] = req[o]
    BY <2>2, <2>4, StepFacts
  <2>. DEFINE new == [token |-> t, at |-> clock,
                      by |-> IF OneTimeValid(r) THEN window ELSE NoWindow]
  <2>6. new.token = t /\ issued' = issued \cup {new}
    BY <2>1
  <2>. HIDE DEF new
  <2>7. IssuedTokens' = IssuedTokens \cup {t}
    BY <2>6 DEF IssuedTokens
  <2>. QED BY <2>1, <2>3, <2>5, <2>7
<1>3. CASE ~(OneTimeValid(r) \/ MasterValid(r))
  BY <1>3, DoneFacts DEF approve
<1>. QED BY <1>2, <1>3

(* A write leaves tokens of the copy and of the old file, and exactly the   *)
(* copy in a file that was empty.                                           *)
LEMMA OverwriteFacts ==
  ASSUME NEW new, NEW old, NEW s \in Overwrites(new, old)
  PROVE  /\ new \subseteq s /\ s \subseteq new \cup old
         /\ old = {} => s = new
BY DEF Overwrites

(* Every step keeps the types: a pairing that is answered has its token. *)
LEMMA TypeStep ==
  ASSUME TypeOK, TokenInv, [PairNext]_pairVars
  PROVE  TypeOK'
<1>. USE DEF process, sessions, settings
<1>0. \A r \in Requests : req[r] \in Carried
  BY DEF TypeOK
<1>1. ASSUME NEW r \in Requests, ArriveHttp(r) PROVE TypeOK'
  <2>1. PICK op \in HttpOps, t \in paired \cup {NoToken}, c \in Codes :
          Step(r, [Idle EXCEPT !.pc = "auth", !.op = op, !.token = t,
                               !.code = c, !.gone = revoked \cap {t}])
    BY <1>1 DEF ArriveHttp
  <2>2. [Idle EXCEPT !.pc = "auth", !.op = op, !.token = t, !.code = c,
                     !.gone = revoked \cap {t}] \in Carried
    BY IdleTyped DEF Carried, Places, TypeOK
  <2>3. req' \in [Requests -> Carried]
    BY <2>1, <2>2, StepFacts
  <2>. QED BY <1>1, <2>3 DEF ArriveHttp, TypeOK
<1>2. ASSUME NEW r \in Requests, ArriveAdmin(r) PROVE TypeOK'
  <2>1. PICK op \in AdminOps : Step(r, [Idle EXCEPT !.pc = "handle", !.op = op])
    BY <1>2 DEF ArriveAdmin
  <2>2. [Idle EXCEPT !.pc = "handle", !.op = op] \in Carried
    BY IdleTyped DEF Carried, Places
  <2>3. req' \in [Requests -> Carried]
    BY <2>1, <2>2, StepFacts
  <2>. QED BY <1>2, <2>3 DEF ArriveAdmin, TypeOK
<1>3. ASSUME NEW r \in Requests, require_auth(r) PROVE TypeOK'
  <2>1. req' \in [Requests -> Carried]
    BY <1>3, GoesFacts, DoneFacts DEF require_auth, Places
  <2>. QED BY <1>3, <2>1 DEF require_auth, TypeOK
<1>4. ASSUME NEW r \in Requests, Operate(r) PROVE TypeOK'
  <2>1. req' \in [Requests -> Carried]
    BY <1>4, DoneFacts DEF Operate
  <2>. QED BY <1>4, <2>1 DEF Operate, TypeOK
<1>5. ASSUME NEW r \in Requests, open_pairing(r) PROVE TypeOK'
  <2>1. req' \in [Requests -> Carried]
    BY <1>5, DoneFacts DEF open_pairing
  <2>2. window' \in Window /\ windows' \in Nat
    BY <1>5, PairingAssumption DEF open_pairing, Window, TypeOK
  <2>. QED BY <1>5, <2>1, <2>2 DEF open_pairing, TypeOK
<1>6. ASSUME NEW r \in Requests, approve(r) PROVE TypeOK'
  <2>0. NoWindow \in Window
    BY DEF NoWindow, Window
  <2>1. CASE OneTimeValid(r) \/ MasterValid(r)
    <3>1. PICK t \in Tokens \ {i.token : i \in issued} :
            /\ window' = Consumed(r)
            /\ approved' = approved \cup {t}
            /\ issued' = issued \cup
                 {[token |-> t, at |-> clock,
                   by |-> IF OneTimeValid(r) THEN window ELSE NoWindow]}
            /\ mutex' = r
            /\ Step(r, [req[r] EXCEPT !.pc = "snapshot", !.token = t])
      BY <1>6, <2>1 DEF approve
    <3>2. [req[r] EXCEPT !.pc = "snapshot", !.token = t] \in Carried
      BY <1>0 DEF Carried, Places
    <3>3. req' \in [Requests -> Carried]
      BY <3>1, <3>2, StepFacts
    <3>4. window' \in Window
      BY <2>0, <3>1 DEF Consumed, TypeOK
    <3>5. issued' \in SUBSET [token : Tokens, at : Nat, by : Window]
      BY <2>0, <3>1 DEF TypeOK
    <3>. QED BY <1>6, <3>1, <3>3, <3>4, <3>5 DEF approve, TypeOK
  <2>2. CASE ~(OneTimeValid(r) \/ MasterValid(r))
    <3>1. req' \in [Requests -> Carried]
      BY <1>6, <2>2, DoneFacts DEF approve
    <3>. QED BY <1>6, <2>2, <3>1 DEF approve, TypeOK
  <2>. QED BY <2>1, <2>2
<1>7. ASSUME NEW r \in Requests, revoke(r) PROVE TypeOK'
  <2>1. req' \in [Requests -> Carried]
    BY <1>7, GoesFacts, DoneFacts DEF revoke, Places
  <2>2. req[r].token \in Tokens \cup {NoToken}
    BY <1>0 DEF Carried
  <2>. QED BY <1>7, <2>1, <2>2 DEF revoke, TypeOK
<1>8. ASSUME NEW r \in Requests, Snapshot(r) PROVE TypeOK'
  <2>1. [req[r] EXCEPT !.pc = "truncate", !.data = approved] \in Carried
    BY <1>0 DEF Carried, Places, TypeOK
  <2>2. req' \in [Requests -> Carried]
    BY <1>8, <2>1, StepFacts DEF Snapshot
  <2>3. raced' \in BOOLEAN
    BY <1>8 DEF Snapshot
  <2>. QED BY <1>8, <2>2, <2>3 DEF Snapshot, TypeOK
<1>9. ASSUME NEW r \in Requests, Truncate(r) PROVE TypeOK'
  <2>1. req' \in [Requests -> Carried]
    BY <1>9, GoesFacts DEF Truncate, Places
  <2>. QED BY <1>9, <2>1 DEF Truncate, TypeOK
<1>10. ASSUME NEW r \in Requests, Reply(r)
       PROVE /\ req' \in [Requests -> Carried]
             /\ mutex' \in Requests \cup {NoOne}
             /\ revoked' \in SUBSET (Tokens \cup {NoToken})
  <2>1. req' \in [Requests -> Carried]
    BY <1>10, DoneFacts DEF Reply
  <2>. QED BY <1>0, <1>10, <2>1 DEF Reply, TypeOK, Carried
<1>11. ASSUME NEW r \in Requests, Reply(r), Persisting(r) PROVE paired' \in SUBSET Tokens
  BY <1>0, <1>11 DEF Persisting, Reply, TypeOK, TokenInv, Saving, Carried
<1>12. ASSUME NEW r \in Requests, Write(r) PROVE TypeOK'
  <2>1. store' \in SUBSET Tokens
    BY <1>0, <1>12, OverwriteFacts DEF Write, Carried, TypeOK
  <2>2. paired' \in SUBSET Tokens
    BY <1>11, <1>12 DEF Write, Persisting
  <2>. QED BY <1>10, <1>12, <2>1, <2>2 DEF Write, TypeOK
<1>13. ASSUME NEW r \in Requests, WriteFails(r) PROVE TypeOK'
  BY <1>10, <1>11, <1>13 DEF WriteFails, TypeOK
<1>14. ASSUME NEW r \in Requests, NEW c \in Settings, Saves(r, c)
       PROVE  req' \in [Requests -> Carried] /\ clash' \in SUBSET {"overlap", "cut"}
  <2>1. [req[r] EXCEPT !.pc = "ctruncate", !.cfg = c] \in Carried
    BY <1>0 DEF Carried, Places
  <2>. QED BY <1>14, <2>1, StepFacts DEF Saves, TypeOK
<1>15. ASSUME NEW r \in Requests, appliance_config_put(r) PROVE TypeOK'
  <2>1. req' \in [Requests -> Carried] /\ clash' \in SUBSET {"overlap", "cut"}
    <3>1. PICK c \in Settings :
            IF Accepts(c) THEN Saves(r, c) ELSE Rests(r) /\ UNCHANGED clash
      BY <1>15 DEF appliance_config_put
    <3>2. CASE Accepts(c)
      BY <1>14, <3>1, <3>2
    <3>3. CASE ~Accepts(c)
      BY <3>1, <3>3, DoneFacts DEF TypeOK
    <3>. QED BY <3>2, <3>3
  <2>. QED BY <1>15, <2>1 DEF appliance_config_put, TypeOK
<1>16. ASSUME NEW r \in Requests, configure(r) PROVE TypeOK'
  <2>1. PICK d \in Devices : Saves(r, [runtime EXCEPT !.device = d])
    BY <1>16 DEF configure
  <2>2. [runtime EXCEPT !.device = d] \in Settings
    BY DEF TypeOK, Settings
  <2>3. req' \in [Requests -> Carried] /\ clash' \in SUBSET {"overlap", "cut"}
    BY <1>14, <2>1, <2>2
  <2>. QED BY <1>16, <2>3 DEF configure, TypeOK
<1>17. ASSUME NEW r \in Requests, ConfigTruncate(r) PROVE TypeOK'
  <2>1. req' \in [Requests -> Carried]
    BY <1>17, GoesFacts DEF ConfigTruncate, Places
  <2>. QED BY <1>17, <2>1 DEF ConfigTruncate, TypeOK
<1>18. ASSUME NEW r \in Requests, ConfigWrite(r) PROVE TypeOK'
  <2>1. req' \in [Requests -> Carried]
    BY <1>18, DoneFacts DEF ConfigWrite
  <2>2. /\ file' \in [text : {"whole", "empty", "garbled"}, cfg : Settings]
        /\ acked' \in Settings
    BY <1>0, <1>18 DEF ConfigWrite, Carried
  <2>. QED BY <1>18, <2>1, <2>2 DEF ConfigWrite, TypeOK
<1>19. ASSUME NEW r \in Requests, ConfigFails(r) PROVE TypeOK'
  <2>1. req' \in [Requests -> Carried]
    BY <1>19, DoneFacts DEF ConfigFails
  <2>. QED BY <1>19, <2>1 DEF ConfigFails, TypeOK
<1>20. ASSUME Stop PROVE TypeOK'
  <2>1. req' \in [Requests -> Carried] /\ window' \in Window
    BY <1>20, IdleTyped DEF Stop, NoWindow, Window
  <2>2. raced' \in BOOLEAN
    BY <1>20 DEF Stop
  <2>3. restarts' \in Nat
    BY <1>20 DEF Stop, TypeOK
  <2>4. up' \in BOOLEAN
    BY <1>20 DEF Stop
  <2>5. clash' = clash \/ clash' = clash \cup {"cut"}
    BY <1>20 DEF Stop
  <2>6. clash' \in SUBSET {"overlap", "cut"}
    BY <2>5 DEF TypeOK
  <2>7. /\ approved' \in SUBSET Tokens /\ mutex' \in Requests \cup {NoOne}
        /\ UNCHANGED <<runtime, store, file, clock, windows, count, issued, paired, leaving,
                       revoked, acked>>
    BY <1>20 DEF Stop
  <2>. QED BY <2>1, <2>2, <2>3, <2>4, <2>6, <2>7 DEF TypeOK
<1>21. ASSUME Boot PROVE TypeOK'
  <2>1. Load(file) \in Settings
    BY IdleTyped, MergedFacts DEF Load, TypeOK
  <2>. QED BY <1>21, <2>1 DEF Boot, TypeOK
<1>22. ASSUME Passes PROVE TypeOK'
  BY <1>22 DEF Passes, TypeOK
<1>23. ASSUME UNCHANGED pairVars PROVE TypeOK'
  BY <1>23 DEF pairVars, TypeOK
<1>. QED
  BY <1>1, <1>2, <1>3, <1>4, <1>5, <1>6, <1>7, <1>8, <1>9, <1>12, <1>13, <1>15, <1>16,
     <1>17, <1>18, <1>19, <1>20, <1>21, <1>22, <1>23 DEF PairNext

-----------------------------------------------------------------------------
(* Pairing windows.                                                        *)

(* Opening a window gives it a new number; approving with its code takes it *)
(* away before another thread can look.                                     *)
LEMMA WindowStep ==
  ASSUME TypeOK, WindowInv, [PairNext]_pairVars
  PROVE  WindowInv'
<1>. USE DEF process, sessions, settings
<1>0. /\ window.id \in Nat /\ window.expires \in Nat /\ windows \in Nat /\ clock \in Nat
      /\ \A i \in issued : i.by \in Window /\ i.at \in Nat
  BY DEF TypeOK, Window
<1>1. ASSUME NEW r \in Requests, open_pairing(r) PROVE WindowInv'
  <2>1. /\ windows' = windows + 1 /\ window'.id = windows + 1 /\ issued' = issued
    BY <1>1 DEF open_pairing
  <2>2. \A i \in issued : i.by.id # windows + 1
    BY <1>0 DEF WindowInv, NoWindow
  <2>. QED BY <1>0, <2>1, <2>2 DEF WindowInv
<1>2. ASSUME NEW r \in Requests, approve(r) PROVE WindowInv'
  <2>1. windows' = windows
    BY <1>2 DEF approve
  <2>2. CASE OneTimeValid(r)
    <3>1. window # NoWindow
      BY <1>0, <2>2 DEF OneTimeValid, NoWindow
    <3>2. PICK t \in Tokens :
            /\ window' = NoWindow
            /\ issued' = issued \cup {[token |-> t, at |-> clock, by |-> window]}
      BY <1>2, <2>2 DEF approve, Consumed
    <3>3. window'.id = 0 /\ clock < window.expires /\ window.id \in 1 .. windows
      BY <1>0, <2>2, <3>1, <3>2 DEF OneTimeValid, NoWindow, WindowInv
    <3>4. \A i \in issued : i.by.id # window.id
      BY <1>0, <3>3 DEF WindowInv
    <3>. QED BY <1>0, <2>1, <3>2, <3>3, <3>4 DEF WindowInv
  <2>3. CASE ~OneTimeValid(r) /\ MasterValid(r)
    <3>1. PICK t \in Tokens :
            /\ window' = window
            /\ issued' = issued \cup {[token |-> t, at |-> clock, by |-> NoWindow]}
      BY <1>2, <2>3 DEF approve, Consumed
    <3>2. NoWindow.id = 0
      BY DEF NoWindow
    <3>. QED BY <1>0, <2>1, <3>1, <3>2 DEF WindowInv
  <2>4. CASE ~OneTimeValid(r) /\ ~MasterValid(r)
    BY <1>2, <2>1, <2>4 DEF approve, WindowInv
  <2>. QED BY <2>2, <2>3, <2>4
<1>3. ASSUME Stop PROVE WindowInv'
  <2>1. window' = NoWindow /\ window'.id = 0 /\ windows' = windows /\ issued' = issued
    BY <1>3 DEF Stop, NoWindow
  <2>. QED BY <2>1 DEF WindowInv
<1>4. ASSUME UNCHANGED <<window, windows, issued>> PROVE WindowInv'
  BY <1>4 DEF WindowInv
<1>5. ASSUME NEW r \in Requests,
             \/ ArriveHttp(r) \/ ArriveAdmin(r) \/ require_auth(r) \/ Operate(r)
             \/ revoke(r) \/ Snapshot(r) \/ Truncate(r) \/ Write(r) \/ WriteFails(r)
             \/ appliance_config_put(r) \/ configure(r)
             \/ ConfigTruncate(r) \/ ConfigWrite(r) \/ ConfigFails(r)
      PROVE UNCHANGED <<window, windows, issued>>
  BY <1>5 DEF ArriveHttp, ArriveAdmin, require_auth, Operate, revoke, Snapshot, Truncate,
      Write, WriteFails, appliance_config_put, configure, ConfigTruncate, ConfigWrite,
      ConfigFails
<1>6. ASSUME Boot \/ Passes \/ UNCHANGED pairVars PROVE UNCHANGED <<window, windows, issued>>
  BY <1>6 DEF Boot, Passes, pairVars
<1>. QED BY <1>1, <1>2, <1>3, <1>4, <1>5, <1>6 DEF PairNext

-----------------------------------------------------------------------------
(* Settings.                                                               *)

(* A step that touches no settings and moves no writer keeps SettingsInv. *)
LEMMA SettingsBystander ==
  ASSUME SettingsInv, UNCHANGED <<settings, runtime>>,
         \A o \in Requests :
           \/ req'[o].pc = req[o].pc /\ req'[o].cfg = req[o].cfg
           \/ req[o].pc \notin {"ctruncate", "cwrite"}
              /\ req'[o].pc \notin {"ctruncate", "cwrite"}
  PROVE  SettingsInv'
BY DEF SettingsInv, SavingConfig, settings, Load, Merged, Good, validate, RefusesOpen

(* Saving begins with good settings, and says so when it is not alone. *)
LEMMA SavesKeep ==
  ASSUME TypeOK, SettingsInv, NEW r \in Requests, NEW c \in Settings, Good(c), Saves(r, c),
         req[r].pc = "handle", UNCHANGED <<runtime, file, acked>>
  PROVE  SettingsInv'
<1>1. req[r] \in Carried
  BY DEF TypeOK
<1>2. [req[r] EXCEPT !.pc = "ctruncate", !.cfg = c] \in Carried
  BY <1>1 DEF Carried, Places
<1>9. /\ req'[r] = [req[r] EXCEPT !.pc = "ctruncate", !.cfg = c]
      /\ \A o \in Requests : o # r => req'[o] = req[o]
  BY <1>2, StepFacts DEF Saves
<1>3. /\ req'[r].pc = "ctruncate" /\ req'[r].cfg = c
      /\ \A o \in Requests : o # r => req'[o] = req[o]
  BY <1>1, <1>9 DEF Carried
<1>4. /\ clash \subseteq clash'
      /\ "overlap" \notin clash' => \A o \in Requests : o # r => ~SavingConfig(o)
  BY DEF Saves
<1>5. Good(runtime)' /\ (Good(Load(file)) <=> Good(Load(file))') /\ Load(file') = Load(file)
  BY DEF SettingsInv, Good, validate, RefusesOpen, Load
<1>6. \A o \in Requests : SavingConfig(o)' => Good(req[o].cfg)'
  BY <1>3 DEF SettingsInv, SavingConfig, Good, validate, RefusesOpen
<1>7. "overlap" \notin clash' =>
        /\ \A q, o \in Requests : SavingConfig(q)' /\ SavingConfig(o)' => q = o
        /\ \A q \in Requests : req'[q].pc = "cwrite" => file'.text = "empty"
        /\ file'.text # "garbled" /\ Good(Load(file))'
  BY <1>3, <1>4, <1>5 DEF SettingsInv, SavingConfig
<1>8. (clash' = {} /\ \A q \in Requests : req'[q].pc # "cwrite") => Load(file') = Merged(acked')
  BY <1>3, <1>4, <1>5 DEF SettingsInv
<1>. QED BY <1>5, <1>6, <1>7, <1>8 DEF SettingsInv

(* One writer at a time leaves settings a start accepts, and those last     *)
(* acknowledged.                                                            *)
LEMMA SettingsStep ==
  ASSUME TypeOK, SettingsInv, \A r \in Requests : ~up => req[r] = Idle, [PairNext]_pairVars
  PROVE  SettingsInv'
<1>. USE DEF process, sessions, settings
<1>0. /\ \A r \in Requests : req[r] \in Carried
      /\ Idle.pc = "idle"
  BY DEF TypeOK, Idle
<1>1. ASSUME NEW r \in Requests, appliance_config_put(r) PROVE SettingsInv'
  <2>1. PICK c \in Settings :
          IF Accepts(c) THEN Saves(r, c) ELSE Rests(r) /\ UNCHANGED clash
    BY <1>1 DEF appliance_config_put
  <2>2. req[r].pc = "handle" /\ UNCHANGED <<runtime, file, acked>>
    BY <1>1 DEF appliance_config_put
  <2>3. CASE Accepts(c)
    BY <2>1, <2>2, <2>3, SavesKeep DEF Accepts, Good
  <2>4. CASE ~Accepts(c)
    <3>1. /\ req'[r].pc = "idle" /\ UNCHANGED clash
          /\ \A o \in Requests : o # r => req'[o] = req[o]
      BY <1>0, <2>1, <2>4, DoneFacts
    <3>. QED BY <2>2, <3>1, SettingsBystander
  <2>. QED BY <2>3, <2>4
<1>2. ASSUME NEW r \in Requests, configure(r) PROVE SettingsInv'
  <2>1. PICK d \in Devices : Saves(r, [runtime EXCEPT !.device = d])
    BY <1>2 DEF configure
  <2>2. req[r].pc = "handle" /\ UNCHANGED <<runtime, file, acked>>
    BY <1>2 DEF configure
  <2>3. [runtime EXCEPT !.device = d] \in Settings /\ Good([runtime EXCEPT !.device = d])
    BY DEF TypeOK, Settings, SettingsInv, Good, validate, RefusesOpen
  <2>. QED BY <2>1, <2>2, <2>3, SavesKeep
<1>3. ASSUME NEW r \in Requests, ConfigTruncate(r) PROVE SettingsInv'
  <2>1. /\ req'[r].pc = "cwrite" /\ req'[r].cfg = req[r].cfg
        /\ \A o \in Requests : o # r => req'[o] = req[o]
    BY <1>3, GoesFacts DEF ConfigTruncate, Places
  <2>2. /\ file'.text = "empty" /\ UNCHANGED <<acked, clash, runtime>>
        /\ req[r].pc = "ctruncate"
    BY <1>3 DEF ConfigTruncate, TypeOK
  <2>3. Load(file') = Profile /\ Good(Load(file))'
    BY <2>2, IdleTyped DEF Load, Good, validate, RefusesOpen
  <2>4. Good(runtime)' /\ \A o \in Requests : SavingConfig(o)' => Good(req[o].cfg)'
    BY <2>1, <2>2 DEF SettingsInv, SavingConfig, Good, validate, RefusesOpen
  <2>5. \A o \in Requests : SavingConfig(o)' => SavingConfig(o)
    BY <2>1, <2>2 DEF SavingConfig
  <2>. QED BY <2>1, <2>2, <2>3, <2>4, <2>5 DEF SettingsInv
<1>4. ASSUME NEW r \in Requests, ConfigWrite(r) PROVE SettingsInv'
  <2>1. /\ req'[r].pc = "idle"
        /\ \A o \in Requests : o # r => req'[o] = req[o]
    BY <1>0, <1>4, DoneFacts DEF ConfigWrite
  <2>2. /\ req[r].pc = "cwrite" /\ UNCHANGED <<runtime, clash>>
        /\ file'.cfg = req[r].cfg /\ acked' = req[r].cfg
        /\ file'.text \in {"whole", "garbled"}
        /\ file.text = "empty" => file'.text = "whole"
    BY <1>4 DEF ConfigWrite
  <2>3. Good(runtime)' /\ \A o \in Requests : SavingConfig(o)' => Good(req[o].cfg)'
    BY <2>1, <2>2 DEF SettingsInv, SavingConfig, Good, validate, RefusesOpen
  <2>4. Load(file') = Merged(req[r].cfg) /\ Good(Load(file))'
    <3>1. req[r].cfg \in Settings /\ Good(req[r].cfg)
      BY <1>0, <2>2 DEF SettingsInv, SavingConfig, Carried
    <3>2. Load(file') = Merged(req[r].cfg) /\ (Load(file))' = Merged(req[r].cfg)
      BY <2>2 DEF Load
    <3>. QED BY <3>1, <3>2, MergedFacts DEF Good, validate, RefusesOpen
  <2>5. "overlap" \notin clash =>
          file.text = "empty" /\ \A o \in Requests : o # r => ~SavingConfig(o)
    BY <2>2 DEF SettingsInv, SavingConfig
  <2>6. "overlap" \notin clash => \A o \in Requests : ~SavingConfig(o)'
    BY <2>1, <2>5 DEF SavingConfig
  <2>. QED BY <2>1, <2>2, <2>3, <2>4, <2>5, <2>6 DEF SettingsInv, SavingConfig
<1>5. ASSUME NEW r \in Requests, ConfigFails(r) PROVE SettingsInv'
  <2>1. /\ req'[r].pc = "idle"
        /\ \A o \in Requests : o # r => req'[o] = req[o]
    BY <1>0, <1>5, DoneFacts DEF ConfigFails
  <2>2. /\ UNCHANGED <<runtime, file, acked>> /\ clash \subseteq clash'
        /\ "overlap" \in clash' => "overlap" \in clash
        /\ clash' = {} => req[r].pc # "cwrite"
    BY <1>5 DEF ConfigFails
  <2>3. Load(file') = Load(file) /\ (Good(Load(file)) => Good(Load(file))')
    BY <2>2 DEF Load, Good, validate, RefusesOpen
  <2>4. Good(runtime)' /\ \A o \in Requests : SavingConfig(o)' => Good(req[o].cfg)'
    BY <2>1, <2>2 DEF SettingsInv, SavingConfig, Good, validate, RefusesOpen
  <2>5. \A o \in Requests : SavingConfig(o)' => SavingConfig(o)
    BY <2>1 DEF SavingConfig
  <2>6. "overlap" \notin clash' => "overlap" \notin clash
    BY <2>2
  <2>7. clash' = {} => clash = {}
    BY <2>2
  <2>. QED BY <2>1, <2>2, <2>3, <2>4, <2>5, <2>6, <2>7 DEF SettingsInv
<1>6. ASSUME Stop PROVE SettingsInv'
  <2>1. \A r \in Requests : req'[r].pc = "idle" /\ ~SavingConfig(r)'
    BY <1>0, <1>6 DEF Stop, SavingConfig
  <2>2. /\ UNCHANGED <<runtime, file, acked>> /\ clash \subseteq clash'
        /\ clash' = {} => \A r \in Requests : req[r].pc # "cwrite"
    BY <1>6 DEF Stop
  <2>3. Load(file') = Load(file) /\ (Good(Load(file)) => Good(Load(file))')
    BY <2>2 DEF Load, Good, validate, RefusesOpen
  <2>4. Good(runtime)'
    BY <2>2 DEF SettingsInv, Good, validate, RefusesOpen
  <2>5. clash' = {} => clash = {}
    BY <2>2
  <2>6. "overlap" \notin clash' => "overlap" \notin clash
    BY <2>2
  <2>. QED BY <2>1, <2>2, <2>3, <2>4, <2>5, <2>6 DEF SettingsInv
<1>7. ASSUME Boot PROVE SettingsInv'
  <2>1. /\ UNCHANGED <<settings, req>> /\ runtime' = Load(file)
    BY <1>7 DEF Boot
  <2>2. Good(runtime)'
    BY <1>7, <2>1 DEF Boot, Bootable, Good, validate, RefusesOpen
  <2>. QED BY <2>1, <2>2 DEF SettingsInv, SavingConfig, Load, Good, validate, RefusesOpen
<1>8. ASSUME NEW r \in Requests,
             \/ ArriveHttp(r) \/ ArriveAdmin(r) \/ require_auth(r) \/ Operate(r)
             \/ open_pairing(r) \/ approve(r) \/ revoke(r)
             \/ Snapshot(r) \/ Truncate(r) \/ Write(r) \/ WriteFails(r)
      PROVE SettingsInv'
  <2>1. UNCHANGED <<settings, runtime>>
    BY <1>8 DEF ArriveHttp, ArriveAdmin, require_auth, Operate, open_pairing, approve, revoke,
        Snapshot, Truncate, Write, WriteFails
  <2>2. req[r].pc \notin {"ctruncate", "cwrite"}
    BY <1>8 DEF ArriveHttp, ArriveAdmin, require_auth, Operate, open_pairing, approve, revoke,
        Snapshot, Truncate, Write, WriteFails, Persisting
  <2>3. CASE ArriveHttp(r) \/ ArriveAdmin(r)
    BY <2>1, <2>2, <2>3, ArriveFacts, SettingsBystander
  <2>4. CASE approve(r) \/ Snapshot(r)
    <3>1. req'[r].pc \notin {"ctruncate", "cwrite"}
          /\ \A o \in Requests : o # r => req'[o] = req[o]
      BY <1>0, <2>4, ApproveFacts, SnapshotFacts
    <3>. QED BY <2>1, <2>2, <3>1, SettingsBystander
  <2>5. CASE \/ require_auth(r) \/ Operate(r) \/ open_pairing(r) \/ revoke(r)
             \/ Truncate(r) \/ Write(r) \/ WriteFails(r)
    <3>1. Rests(r) \/ \E pc \in {"handle", "snapshot", "write"} : Goes(r, pc)
      BY <2>5 DEF require_auth, Operate, open_pairing, revoke, Truncate, Write, WriteFails,
          Reply
    <3>2. req'[r].pc \notin {"ctruncate", "cwrite"}
          /\ \A o \in Requests : o # r => req'[o] = req[o]
      BY <1>0, <3>1, DoneFacts, GoesFacts DEF Places
    <3>. QED BY <2>1, <2>2, <3>2, SettingsBystander
  <2>. QED BY <1>8, <2>3, <2>4, <2>5
<1>9. ASSUME Passes \/ UNCHANGED pairVars PROVE SettingsInv'
  <2>1. UNCHANGED <<settings, runtime, req>>
    BY <1>9 DEF Passes, pairVars
  <2>. QED BY <2>1, SettingsBystander
<1>. QED BY <1>1, <1>2, <1>3, <1>4, <1>5, <1>6, <1>7, <1>8, <1>9 DEF PairNext

-----------------------------------------------------------------------------
(* Sessions.                                                               *)

(* A step that touches no session, of a thread that does not persist, keeps *)
(* SessionInv.                                                              *)
LEMMA SessionBystander ==
  ASSUME TypeOK, SessionInv, NEW r \in Requests, up,
         UNCHANGED <<approved, store, issued, paired, leaving, revoked, raced>>,
         UNCHANGED <<up, restarts, runtime>>,
         \A o \in Requests : o # r => req'[o] = req[o],
         ~Saving(r), ~Saving(r)',
         req'[r].token \in IssuedTokens \cup {NoToken},
         req'[r].data \subseteq IssuedTokens, req'[r].gone \subseteq revoked,
         req'[r].op = "pair" => req'[r].token = NoToken,
         req'[r].pc = "handle" /\ runtime.auth /\ req'[r].token \in req'[r].gone
           => raced /\ restarts > 0
  PROVE  SessionInv'
<1>0. IssuedTokens' = IssuedTokens
  BY DEF IssuedTokens
<1>1. TokenInv'
  BY <1>0 DEF SessionInv, TokenInv, Saving
<1>2. MoveInv'
  BY DEF SessionInv, MoveInv, Saving
<1>3. OutInv'
  BY DEF SessionInv, OutInv
<1>4. CopyInv'
  <2>1. \A o \in Requests : /\ Persisting(o)' => Persisting(o) /\ req'[o] = req[o]
                            /\ (req'[o].pc = "write") = (req[o].pc = "write")
    BY DEF Persisting, Saving
  <2>. QED BY <2>1 DEF SessionInv, CopyInv
<1>5. LogoutHolds'
  BY DEF SessionInv, LogoutHolds
<1>. QED BY <1>1, <1>2, <1>3, <1>4, <1>5 DEF SessionInv

(* The middleware lets nothing through with a token that is out. *)
LEMMA AuthKeeps ==
  ASSUME TypeOK, SessionInv, NEW r \in Requests, require_auth(r)
  PROVE  SessionInv'
<1>. USE DEF process, sessions
<1>0. /\ up /\ req[r].pc = "auth" /\ UNCHANGED <<sessions, up, restarts, runtime>>
      /\ ~Saving(r)
  BY DEF require_auth, Saving
<1>1. CASE Rests(r)
  <2>1. req'[r] = Idle /\ \A o \in Requests : o # r => req'[o] = req[o]
    BY <1>1, DoneFacts
  <2>2. Idle.pc = "idle" /\ Idle.op = "none" /\ Idle.token = NoToken /\ Idle.data = {}
        /\ Idle.gone = {}
    BY DEF Idle
  <2>. QED BY <1>0, <2>1, <2>2, SessionBystander DEF Saving
<1>2. CASE Admits(r) /\ Goes(r, "handle")
  <2>1. /\ req'[r].pc = "handle" /\ req'[r].op = req[r].op /\ req'[r].token = req[r].token
        /\ req'[r].data = req[r].data /\ req'[r].gone = req[r].gone
        /\ \A o \in Requests : o # r => req'[o] = req[o]
    BY <1>2, GoesFacts DEF Places
  <2>2. /\ req[r].token \in IssuedTokens \cup {NoToken}
        /\ req[r].data \subseteq IssuedTokens /\ req[r].gone \subseteq revoked
        /\ req[r].op = "pair" => req[r].token = NoToken
    BY <1>0 DEF SessionInv, TokenInv
  <2>3. NoToken \notin revoked
    BY PairingAssumption DEF SessionInv, TokenInv, IssuedTokens, TypeOK
  <2>4. runtime.auth /\ req[r].token \in req[r].gone => raced /\ restarts > 0
    BY <1>2, <2>2, <2>3 DEF Admits, valid, SessionInv, OutInv
  <2>. QED BY <1>0, <2>1, <2>2, <2>4, SessionBystander DEF Saving
<1>. QED BY <1>1, <1>2 DEF require_auth

(* Every other step of a thread that has nothing to do with sessions. *)
LEMMA OthersKeep ==
  ASSUME TypeOK, SessionInv, NEW r \in Requests,
         \/ ArriveHttp(r) \/ ArriveAdmin(r) \/ Operate(r) \/ open_pairing(r)
         \/ appliance_config_put(r) \/ configure(r)
         \/ ConfigTruncate(r) \/ ConfigWrite(r) \/ ConfigFails(r)
  PROVE  SessionInv'
<1>. USE DEF process, sessions
<1>0. /\ up /\ UNCHANGED <<approved, store, issued, paired, leaving, revoked, raced>>
      /\ UNCHANGED <<up, restarts, runtime>> /\ ~Saving(r)
  BY DEF ArriveHttp, ArriveAdmin, Operate, open_pairing, appliance_config_put, configure, ConfigTruncate,
      ConfigWrite, ConfigFails, SavingConfig, Saving
<1>1. /\ req[r].token \in IssuedTokens \cup {NoToken}
      /\ req[r].data \subseteq IssuedTokens /\ req[r].gone \subseteq revoked
      /\ req[r].op = "pair" => req[r].token = NoToken
  BY <1>0 DEF SessionInv, TokenInv
<1>2. CASE ArriveHttp(r) \/ ArriveAdmin(r)
  <2>1. /\ req'[r].pc \in {"auth", "handle"} /\ req'[r].data = {}
        /\ req'[r].token \in paired \cup {NoToken} /\ req'[r].gone \subseteq revoked
        /\ req'[r].op = "pair" => req'[r].token = NoToken
        /\ req'[r].pc = "handle" => req'[r].gone = {}
        /\ \A o \in Requests : o # r => req'[o] = req[o]
    BY <1>2, ArriveFacts
  <2>2. req'[r].token \in IssuedTokens \cup {NoToken} /\ req'[r].data \subseteq IssuedTokens
    BY <2>1 DEF SessionInv, TokenInv
  <2>. QED BY <1>0, <2>1, <2>2, SessionBystander DEF Saving
<1>3. CASE Rests(r)
  <2>1. req'[r] = Idle /\ \A o \in Requests : o # r => req'[o] = req[o]
    BY <1>3, DoneFacts
  <2>2. Idle.pc = "idle" /\ Idle.op = "none" /\ Idle.token = NoToken /\ Idle.data = {}
        /\ Idle.gone = {}
    BY DEF Idle
  <2>. QED BY <1>0, <2>1, <2>2, SessionBystander DEF Saving
<1>4. ASSUME NEW c \in Settings, Saves(r, c) PROVE SessionInv'
  <2>1. req[r] \in Carried
    BY DEF TypeOK
  <2>. DEFINE upd == [req[r] EXCEPT !.pc = "ctruncate", !.cfg = c]
  <2>2. upd \in Carried
    BY <2>1 DEF Carried, Places
  <2>3. upd.pc = "ctruncate" /\ upd.op = req[r].op /\ upd.token = req[r].token
        /\ upd.data = req[r].data /\ upd.gone = req[r].gone
    BY <2>1 DEF Carried
  <2>4. Step(r, upd)
    BY <1>4 DEF Saves
  <2>. HIDE DEF upd
  <2>5. req'[r] = upd /\ \A o \in Requests : o # r => req'[o] = req[o]
    BY <2>2, <2>4, StepFacts
  <2>. QED BY <1>0, <1>1, <2>3, <2>5, SessionBystander DEF Saving
<1>5. CASE Goes(r, "cwrite")
  <2>1. /\ req'[r].pc = "cwrite" /\ req'[r].op = req[r].op /\ req'[r].token = req[r].token
        /\ req'[r].data = req[r].data /\ req'[r].gone = req[r].gone
        /\ \A o \in Requests : o # r => req'[o] = req[o]
    BY <1>5, GoesFacts DEF Places
  <2>. QED BY <1>0, <1>1, <2>1, SessionBystander DEF Saving
<1>6. CASE configure(r)
  <2>1. PICK d \in Devices : Saves(r, [runtime EXCEPT !.device = d])
    BY <1>6 DEF configure
  <2>2. [runtime EXCEPT !.device = d] \in Settings
    BY DEF TypeOK, Settings
  <2>. QED BY <1>4, <2>1, <2>2
<1>7. CASE appliance_config_put(r)
  BY <1>3, <1>4, <1>7 DEF appliance_config_put
<1>. QED BY <1>2, <1>3, <1>5, <1>6, <1>7 DEF Operate, open_pairing, ConfigTruncate, ConfigWrite, ConfigFails

(* A fresh token is nobody's: it is not out, and no logout carries it. *)
LEMMA ApproveKeeps ==
  ASSUME TypeOK, SessionInv, NEW r \in Requests, approve(r)
  PROVE  SessionInv'
<1>0. /\ up /\ UNCHANGED <<store, paired, leaving, revoked, raced, up, restarts, runtime>>
      /\ req[r].pc = "handle" /\ req[r].op = "pair"
  BY DEF approve, process
<1>1. \A o \in Requests : o # r => req'[o] = req[o]
  BY ApproveFacts
<1>2. CASE req'[r] = Idle /\ UNCHANGED <<approved, issued>>
  <2>1. Idle.pc = "idle" /\ Idle.op = "none" /\ Idle.token = NoToken /\ Idle.data = {}
        /\ Idle.gone = {}
    BY DEF Idle
  <2>. QED BY <1>0, <1>1, <1>2, <2>1, SessionBystander DEF Saving
<1>3. ASSUME NEW t \in Tokens \ IssuedTokens,
             approved' = approved \cup {t}, IssuedTokens' = IssuedTokens \cup {t},
             req'[r].pc = "snapshot", req'[r].op = "pair", req'[r].token = t,
             req'[r].data = req[r].data, req'[r].gone = req[r].gone
      PROVE SessionInv'
  <2>1. TokenInv'
    BY <1>0, <1>1, <1>3, PairingAssumption DEF SessionInv, TokenInv, Saving
  <2>2. MoveInv'
    <3>1. \A o \in Requests : o # r /\ Saving(o) => req[o].token # t
      BY <1>3 DEF SessionInv, TokenInv
    <3>. QED BY <1>0, <1>1, <1>3, <3>1 DEF SessionInv, MoveInv, Saving
  <2>3. OutInv'
    BY <1>0, <1>3 DEF SessionInv, OutInv, TokenInv
  <2>4. CopyInv'
    <3>1. \A o \in Requests : /\ Persisting(o)' => Persisting(o) /\ req'[o] = req[o]
                              /\ (req'[o].pc = "write") = (req[o].pc = "write")
      BY <1>0, <1>1, <1>3 DEF Persisting
    <3>. QED BY <1>0, <1>3, <3>1 DEF SessionInv, CopyInv
  <2>5. LogoutHolds'
    BY <1>0, <1>1, <1>3 DEF SessionInv, LogoutHolds
  <2>. QED BY <2>1, <2>2, <2>3, <2>4, <2>5 DEF SessionInv
<1>. QED BY <1>2, <1>3, ApproveFacts

(* A logout takes the token from the set before its file is touched. *)
LEMMA RevokeKeeps ==
  ASSUME TypeOK, SessionInv, NEW r \in Requests, revoke(r)
  PROVE  SessionInv'
<1>0. /\ up /\ UNCHANGED <<store, issued, paired, revoked, raced, up, restarts, runtime>>
      /\ req[r].pc = "handle" /\ req[r].op = "logout"
      /\ approved' = approved \ {req[r].token}
      /\ leaving' = leaving \cup {req[r].token} /\ IssuedTokens' = IssuedTokens
  BY DEF revoke, process, IssuedTokens
<1>1. /\ \A o \in Requests : o # r => req'[o] = req[o]
      /\ \/ req'[r] = Idle
         \/ /\ req[r].token # NoToken
            /\ req'[r].pc = "snapshot" /\ req'[r].op = "logout"
            /\ req'[r].token = req[r].token
            /\ req'[r].data = req[r].data /\ req'[r].gone = req[r].gone
  BY <1>0, DoneFacts, GoesFacts DEF revoke, Places
<1>2. Idle.pc = "idle" /\ Idle.op = "none" /\ Idle.token = NoToken /\ Idle.data = {}
      /\ Idle.gone = {}
  BY DEF Idle
<1>3. TokenInv'
  BY <1>0, <1>1, <1>2 DEF SessionInv, TokenInv, Saving
<1>4. MoveInv'
  BY <1>0, <1>1, <1>2 DEF SessionInv, MoveInv, Saving
<1>5. OutInv'
  BY <1>0 DEF SessionInv, OutInv
<1>6. CopyInv'
  <2>1. \A o \in Requests : /\ Persisting(o)' => Persisting(o) /\ req'[o] = req[o]
                            /\ (req'[o].pc = "write") = (req[o].pc = "write")
    BY <1>0, <1>1, <1>2 DEF Persisting
  <2>. QED BY <1>0, <2>1 DEF SessionInv, CopyInv
<1>7. LogoutHolds'
  BY <1>0, <1>1, <1>2 DEF SessionInv, LogoutHolds
<1>. QED BY <1>3, <1>4, <1>5, <1>6, <1>7 DEF SessionInv

(* A copy taken while nobody else persists agrees with what devices were    *)
(* told.                                                                    *)
LEMMA SnapshotKeeps ==
  ASSUME TypeOK, SessionInv, NEW r \in Requests, Snapshot(r)
  PROVE  SessionInv'
<1>0. /\ up /\ UNCHANGED <<approved, store, issued, paired, leaving, revoked, up, restarts, runtime>>
      /\ req[r].pc = "snapshot" /\ IssuedTokens' = IssuedTokens
      /\ raced' = (raced \/ \E o \in Requests \ {r} : Persisting(o))
  BY DEF Snapshot, process, IssuedTokens
<1>1. /\ req'[r].pc = "truncate" /\ req'[r].data = approved
      /\ req'[r].op = req[r].op /\ req'[r].token = req[r].token
      /\ req'[r].gone = req[r].gone
      /\ \A o \in Requests : o # r => req'[o] = req[o]
  BY SnapshotFacts
<1>2. raced => raced'
  BY <1>0
<1>3. TokenInv'
  BY <1>0, <1>1 DEF SessionInv, TokenInv, Saving
<1>4. MoveInv'
  BY <1>0, <1>1 DEF SessionInv, MoveInv, Saving
<1>5. OutInv'
  BY <1>0, <1>2 DEF SessionInv, OutInv
<1>6. CopyInv'
  <2>. SUFFICES ASSUME ~raced' PROVE CopyInv'
    BY DEF CopyInv
  <2>1. /\ ~raced /\ \A o \in Requests : o # r => ~Persisting(o)
    BY <1>0
  <2>2. \A o \in Requests : o # r => ~Persisting(o)' /\ req'[o].pc # "write"
    BY <1>1, <2>1 DEF Persisting
  <2>3. /\ paired \ leaving \subseteq approved /\ revoked \cap approved = {}
    BY <1>0, <2>1 DEF SessionInv, CopyInv, OutInv
  <2>4. /\ req[r].op = "pair" => req[r].token \in approved \cup leaving
        /\ req[r].op = "logout" => req[r].token \notin approved
    BY <1>0 DEF SessionInv, MoveInv, Saving
  <2>5. paired \ leaving \subseteq store /\ revoked \cap store = {}
    BY <1>0, <2>1 DEF SessionInv, CopyInv, Persisting
  <2>. QED BY <1>0, <1>1, <2>1, <2>2, <2>3, <2>4, <2>5 DEF CopyInv
<1>7. LogoutHolds'
  BY <1>0, <1>1, <1>2 DEF SessionInv, LogoutHolds
<1>. QED BY <1>3, <1>4, <1>5, <1>6, <1>7 DEF SessionInv

(* The file is emptied by the one that will write it. *)
LEMMA TruncateKeeps ==
  ASSUME TypeOK, SessionInv, NEW r \in Requests, Truncate(r)
  PROVE  SessionInv'
<1>0. /\ up /\ UNCHANGED <<approved, issued, paired, leaving, revoked, raced, up, restarts, runtime>>
      /\ req[r].pc = "truncate" /\ IssuedTokens' = IssuedTokens /\ store' = {}
  BY DEF Truncate, process, IssuedTokens
<1>1. /\ req'[r].pc = "write" /\ req'[r].data = req[r].data
      /\ req'[r].op = req[r].op /\ req'[r].token = req[r].token
      /\ req'[r].gone = req[r].gone
      /\ \A o \in Requests : o # r => req'[o] = req[o]
  BY GoesFacts DEF Truncate, Places
<1>3. TokenInv'
  BY <1>0, <1>1 DEF SessionInv, TokenInv, Saving
<1>4. MoveInv'
  BY <1>0, <1>1 DEF SessionInv, MoveInv, Saving
<1>5. OutInv'
  BY <1>0 DEF SessionInv, OutInv
<1>6. CopyInv'
  <2>1. \A o \in Requests : Persisting(o)' =>
          /\ Persisting(o) /\ req'[o].data = req[o].data /\ req'[o].op = req[o].op
          /\ req'[o].token = req[o].token
    BY <1>0, <1>1 DEF Persisting
  <2>. QED BY <1>0, <1>1, <2>1 DEF SessionInv, CopyInv
<1>7. LogoutHolds'
  BY <1>0, <1>1 DEF SessionInv, LogoutHolds
<1>. QED BY <1>3, <1>4, <1>5, <1>6, <1>7 DEF SessionInv

(* The answer follows the write: what a device is told is in the file. *)
LEMMA AnswerKeeps ==
  ASSUME TypeOK, SessionInv, NEW r \in Requests, Write(r) \/ WriteFails(r)
  PROVE  SessionInv'
<1>0. /\ up /\ UNCHANGED <<approved, issued, leaving, up, restarts, runtime>>
      /\ Persisting(r) /\ IssuedTokens' = IssuedTokens
      /\ paired' = IF req[r].op = "pair" THEN paired \cup {req[r].token} ELSE paired
      /\ revoked' = IF req[r].op = "logout" THEN revoked \cup {req[r].token} ELSE revoked
      /\ raced => raced'
  BY DEF Write, WriteFails, Reply, process, IssuedTokens, Persisting
<1>1. req'[r] = Idle /\ \A o \in Requests : o # r => req'[o] = req[o]
  BY DoneFacts DEF Write, WriteFails, Reply
<1>2. Idle.pc = "idle" /\ Idle.op = "none" /\ Idle.token = NoToken /\ Idle.data = {}
      /\ Idle.gone = {} /\ Saving(r)
  BY <1>0 DEF Idle, Saving, Persisting
<1>3. store' \subseteq req[r].data \cup store
  <2>1. CASE Write(r)
    BY <2>1, OverwriteFacts DEF Write
  <2>2. CASE WriteFails(r)
    BY <2>2 DEF WriteFails
  <2>. QED BY <2>1, <2>2
<1>4. req[r].token \in IssuedTokens
  BY <1>2 DEF SessionInv, TokenInv
<1>5. TokenInv'
  BY <1>0, <1>1, <1>2, <1>3, <1>4 DEF SessionInv, TokenInv, Saving
<1>6. MoveInv'
  BY <1>0, <1>1, <1>2 DEF SessionInv, MoveInv, Saving
<1>7. OutInv'
  BY <1>0, <1>2 DEF SessionInv, OutInv, MoveInv
<1>8. CopyInv'
  <2>. SUFFICES ASSUME ~raced' PROVE CopyInv'
    BY DEF CopyInv
  <2>1. Write(r) /\ req[r].pc = "write" /\ ~raced
    BY <1>0 DEF WriteFails, Write
  <2>2. /\ \A o \in Requests : Persisting(o) => o = r
        /\ paired \ leaving \subseteq req[r].data
        /\ revoked \cap req[r].data = {}
        /\ req[r].op = "pair" => req[r].token \in req[r].data \cup leaving
        /\ req[r].op = "logout" => req[r].token \notin req[r].data
        /\ store = {}
        /\ paired \ leaving \subseteq approved
    BY <1>0, <2>1 DEF SessionInv, CopyInv
  <2>3. store' = req[r].data
    BY <2>1, <2>2, OverwriteFacts DEF Write
  <2>4. \A o \in Requests : ~Persisting(o)' /\ req'[o].pc # "write"
    BY <1>1, <1>2, <2>2 DEF Persisting
  <2>5. req[r].op = "pair" => req[r].token \in approved \cup leaving
    BY <1>2 DEF SessionInv, MoveInv
  <2>6. paired' \ leaving \subseteq approved /\ paired' \ leaving \subseteq store' /\ revoked' \cap store' = {}
    BY <1>0, <2>2, <2>3, <2>5
  <2>. QED BY <1>0, <2>4, <2>6 DEF CopyInv
<1>9. LogoutHolds'
  BY <1>0, <1>1, <1>2 DEF SessionInv, LogoutHolds
<1>. QED BY <1>5, <1>6, <1>7, <1>8, <1>9 DEF SessionInv

(* A stop drops every thread, and says when it cut a write short. *)
LEMMA StopKeeps ==
  ASSUME TypeOK, SessionInv, Stop
  PROVE  SessionInv'
<1>0. /\ up /\ ~up' /\ UNCHANGED <<runtime, store, issued, paired, leaving, revoked>>
      /\ restarts' = restarts + 1 /\ approved' = {} /\ IssuedTokens' = IssuedTokens
      /\ raced' = (raced \/ \E r \in Requests : req[r].pc = "write")
  BY DEF Stop, IssuedTokens
<1>1. \A r \in Requests : req'[r] = Idle
  BY DEF Stop
<1>2. Idle.pc = "idle" /\ Idle.op = "none" /\ Idle.token = NoToken /\ Idle.data = {}
      /\ Idle.gone = {}
  BY DEF Idle
<1>3. TokenInv'
  BY <1>0, <1>1, <1>2 DEF SessionInv, TokenInv, Saving
<1>4. MoveInv'
  BY <1>1, <1>2 DEF MoveInv, Saving
<1>5. OutInv'
  BY <1>0 DEF SessionInv, OutInv, TypeOK
<1>6. CopyInv'
  BY <1>0, <1>1, <1>2 DEF SessionInv, CopyInv, Persisting
<1>7. LogoutHolds'
  BY <1>1, <1>2 DEF LogoutHolds
<1>. QED BY <1>3, <1>4, <1>5, <1>6, <1>7 DEF SessionInv

(* A start takes its sessions from a file nobody is writing. *)
LEMMA BootKeeps ==
  ASSUME TypeOK, SessionInv, Boot
  PROVE  SessionInv'
<1>0. /\ ~up /\ up' /\ UNCHANGED <<req, store, issued, paired, leaving, revoked, raced, restarts>>
      /\ approved' = store /\ IssuedTokens' = IssuedTokens
  BY DEF Boot, IssuedTokens
<1>1. \A r \in Requests : req[r] = Idle
  BY <1>0 DEF SessionInv, TokenInv
<1>2. Idle.pc = "idle" /\ Idle.op = "none" /\ Idle.token = NoToken /\ Idle.data = {}
      /\ Idle.gone = {}
  BY DEF Idle
<1>3. TokenInv'
  BY <1>0, <1>1, <1>2 DEF SessionInv, TokenInv, Saving
<1>4. MoveInv'
  BY <1>0, <1>1, <1>2 DEF MoveInv, Saving
<1>5. OutInv'
  <2>1. ~raced => revoked \cap store = {}
    BY <1>1, <1>2 DEF SessionInv, CopyInv
  <2>. QED BY <1>0, <2>1 DEF SessionInv, OutInv, TypeOK
<1>6. CopyInv'
  BY <1>0, <1>1, <1>2 DEF SessionInv, CopyInv, Persisting
<1>7. LogoutHolds'
  BY <1>0, <1>1, <1>2 DEF LogoutHolds
<1>. QED BY <1>3, <1>4, <1>5, <1>6, <1>7 DEF SessionInv

(* Neither the clock nor a stuttering step is seen by a session. *)
LEMMA TickKeeps ==
  ASSUME SessionInv, Passes \/ UNCHANGED pairVars
  PROVE  SessionInv'
<1>0. UNCHANGED <<up, runtime, restarts, approved, store, issued, paired, leaving, revoked, raced, req>>
  BY DEF Passes, pairVars, sessions
<1>1. IssuedTokens' = IssuedTokens
  BY <1>0 DEF IssuedTokens
<1>3. TokenInv'
  BY <1>0, <1>1 DEF SessionInv, TokenInv, Saving
<1>4. MoveInv'
  BY <1>0 DEF SessionInv, MoveInv, Saving
<1>5. OutInv'
  BY <1>0 DEF SessionInv, OutInv
<1>6. CopyInv'
  BY <1>0 DEF SessionInv, CopyInv, Persisting
<1>7. LogoutHolds'
  BY <1>0 DEF SessionInv, LogoutHolds
<1>. QED BY <1>3, <1>4, <1>5, <1>6, <1>7 DEF SessionInv

-----------------------------------------------------------------------------
(* The theorems.                                                           *)

(* Nothing is paired, told or written before the first start. *)
LEMMA InitIInv == PairInit => IInv
<1>. SUFFICES ASSUME PairInit PROVE IInv
  OBVIOUS
<1>. USE DEF PairInit
<1>0. Idle.pc = "idle" /\ Idle.op = "none" /\ Idle.token = NoToken /\ Idle.data = {}
      /\ Idle.gone = {} /\ NoWindow.id = 0 /\ NoWindow \in Window
  BY DEF Idle, NoWindow, Window
<1>1. TypeOK
  BY <1>0, IdleTyped DEF TypeOK
<1>2. WindowInv
  BY <1>0 DEF WindowInv
<1>3. SessionInv
  BY <1>0 DEF SessionInv, TokenInv, MoveInv, OutInv, CopyInv, LogoutHolds, Saving,
      Persisting, IssuedTokens
<1>4. SettingsInv
  <2>1. PICK d \in Devices : Profile = Appliance(d)
    BY PairingAssumption DEF Profile
  <2>2. Merged(Profile) = Profile
    BY <2>1 DEF Merged, Appliance
  <2>3. Load(file) = Profile /\ acked = Profile
    BY DEF Load
  <2>4. /\ Good(runtime) /\ Good(Load(file)) /\ file.text # "garbled"
        /\ \A r \in Requests : req[r].pc = "idle" /\ ~SavingConfig(r)
    BY <1>0, <2>3, IdleTyped DEF SavingConfig
  <2>. QED BY <2>2, <2>3, <2>4 DEF SettingsInv
<1>. QED BY <1>1, <1>2, <1>3, <1>4 DEF IInv

(* Every step of the process, its threads and the clock keeps IInv. *)
LEMMA NextIInv == IInv /\ [PairNext]_pairVars => IInv'
<1>. SUFFICES ASSUME IInv, [PairNext]_pairVars PROVE IInv'
  OBVIOUS
<1>. USE DEF IInv
<1>1. TypeOK'
  BY TypeStep DEF SessionInv
<1>2. WindowInv'
  BY WindowStep
<1>3. SettingsInv'
  <2>1. \A r \in Requests : ~up => req[r] = Idle
    BY DEF SessionInv, TokenInv
  <2>. QED BY <2>1, SettingsStep
<1>4. SessionInv'
  BY AuthKeeps, OthersKeep, ApproveKeeps, RevokeKeeps, SnapshotKeeps, TruncateKeeps,
     AnswerKeeps, StopKeeps, BootKeeps, TickKeeps DEF PairNext
<1>. QED BY <1>1, <1>2, <1>3, <1>4

(* IInv holds in every reachable state. *)
THEOREM Inductive == PairSpec => []IInv
BY InitIInv, NextIInv, PTL DEF PairSpec

(* Type correctness of the appliance's pairing and settings. *)
THEOREM TypeCorrect == PairSpec => []TypeOK
<1>1. IInv => TypeOK
  BY DEF IInv
<1>. QED BY <1>1, Inductive, PTL

(* CodeUsedOnce: a code shown on the display lets in one device, while its  *)
(* window is open (approve, auth.rs).                                       *)
THEOREM CodeUsedOnceHolds == PairSpec => []CodeUsedOnce
<1>1. IInv => CodeUsedOnce
  BY DEF IInv, WindowInv, CodeUsedOnce, TypeOK, Window
<1>. QED BY <1>1, Inductive, PTL

(* LogoutHolds: a token whose logout was answered opens no door, in this    *)
(* process ever, and after a restart unless a persist was raced (revoke,    *)
(* require_auth).                                                           *)
THEOREM LogoutHoldsAlways == PairSpec => []LogoutHolds
<1>1. IInv => LogoutHolds
  BY DEF IInv, SessionInv
<1>. QED BY <1>1, Inductive, PTL

(* PairingsSurvive: without a race the file holds the devices that were     *)
(* told they are paired, and none that was told it is out (persist).        *)
THEOREM PairingsSurviveHolds == PairSpec => []PairingsSurvive
<1>1. IInv => PairingsSurvive
  BY DEF IInv, SessionInv, CopyInv, PairingsSurvive
<1>. QED BY <1>1, Inductive, PTL

(* SettingsSurvive: unless two writers overlapped a start accepts what is   *)
(* on disk, and finds what was acknowledged last, an option that was        *)
(* cleared as the profile has it (appliance_config_put, configure, load).   *)
THEOREM SettingsSurviveHolds == PairSpec => []SettingsSurvive
<1>1. ASSUME IInv PROVE SettingsSurvive
  <2>1. "overlap" \notin clash => Bootable(file)
    BY <1>1 DEF IInv, SettingsInv, Bootable, Good
  <2>2. acked \in Settings
    BY <1>1 DEF IInv, TypeOK
  <2>3. (clash = {} /\ \A r \in Requests : req[r].pc # "cwrite") => Load(file) = Merged(acked)
    BY <1>1 DEF IInv, SettingsInv
  <2>. QED BY <2>1, <2>2, <2>3, MergedFacts DEF SettingsSurvive
<1>. QED BY <1>1, Inductive, PTL
=============================================================================
