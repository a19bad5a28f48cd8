-------------------------- MODULE SignalAccessProofs --------------------------
(***************************************************************************)
(* One code gives one access, and what has ended stays ended, for any      *)
(* identities, calls and tokens.                                           *)
(***************************************************************************)
EXTENDS SignalAccess, TLAPS

\* A row that is in memory, or that a removal may put back there.
LiveRow(id, row) ==
  \/ row = ram[id]
  \/ \E d \in Clients :
       call[d].pc = "forget_save" /\ call[d].id = id /\ row = call[d].row

\* A row that a restart may bring back, too.
KeptRow(id, row) == LiveRow(id, row) \/ row = disk[id]

Code(row) == IF row = None THEN NoToken ELSE row.pending

\* No token is newer than the last.
TokenInv ==
  /\ \A id \in Ids, row \in Rows :
       KeptRow(id, row) => \A token \in Held(row) : token <= last
  /\ \A id \in Ids : ended[id] <= last
  /\ \A c \in Clients : call[c].token <= last /\ call[c].code <= last
  /\ \A grant \in delivered : grant.code <= last

\* While a removal writes the store its identity is not in memory, and there is
\* no other removal.
ForgetInv ==
  \A c \in Clients : call[c].pc = "forget_save" =>
    /\ ram[call[c].id] = None
    /\ \A d \in Clients : call[d].pc = "forget_save" => d = c

\* What has ended, or will have when a revocation returns, is in no row.
EndedInv ==
  \A id \in Ids, row \in Rows :
    /\ KeptRow(id, row) => \A token \in Held(row) : token > ended[id]
    /\ LiveRow(id, row) =>
         \A c \in Clients : call[c].pc = "revoke_save" /\ call[c].id = id =>
           \A token \in Held(row) : token > call[c].token

\* A code is in the rows of one identity until it is redeemed, by one call.
CodeInv ==
  /\ \A id, other \in Ids : \A row, row2 \in Rows :
       /\ KeptRow(id, row) /\ KeptRow(other, row2)
       /\ Code(row) = Code(row2) /\ Code(row) # NoToken
       => id = other
  /\ \A c \in Clients : call[c].pc = "redeem_save" =>
       /\ call[c].code # NoToken
       /\ \A id \in Ids, row \in Rows : LiveRow(id, row) => Code(row) # call[c].code
       /\ \A d \in Clients :
            call[d].pc = "redeem_save" /\ call[d].code = call[c].code => d = c
       /\ \A grant \in delivered : grant.code # call[c].code
  /\ \A grant \in delivered : \A id \in Ids, row \in Rows :
       KeptRow(id, row) => Code(row) # grant.code

Inv == TypeOK /\ TokenInv /\ ForgetInv /\ EndedInv /\ CodeInv /\ OneAccessPerCode

-----------------------------------------------------------------------------
(* Rows                                                                    *)

\* What the operators on rows give.
LEMMA RowFacts ==
  ASSUME SignalAssumption
  PROVE  /\ NewRow \in Row /\ NewRow # None /\ Held(NewRow) = {} /\ Code(NewRow) = NoToken
         /\ None \in Rows /\ Held(None) = {} /\ Code(None) = NoToken
         /\ None \notin Row
         /\ \A row \in Rows : Held(row) \subseteq Tokens
         /\ \A row \in Rows : Code(row) # NoToken => Code(row) \in Held(row)
BY DEF SignalAssumption, Row, NewRow, Rows, Held, Code, NoToken, Tokens

LEMMA InitInv == ASSUME SignalAssumption, Init PROVE Inv
<1>1. TypeOK
  BY DEF SignalAssumption, Init, TypeOK, Rows, Calls, Idle, Writing, NoToken, Tokens
<1>2. \A id \in Ids, row \in Rows : KeptRow(id, row) \/ LiveRow(id, row) => row = None
  BY DEF Init, KeptRow, LiveRow, Idle
<1>3. \A c \in Clients : call[c] = Idle
  BY DEF Init
<1>4. TokenInv
  BY <1>2, <1>3, RowFacts DEF Init, TokenInv, Idle, NoToken
<1>5. ForgetInv
  BY <1>3 DEF ForgetInv, Idle
<1>6. EndedInv
  BY <1>2, <1>3, RowFacts DEF EndedInv, Idle
<1>7. CodeInv
  BY <1>2, <1>3, RowFacts DEF Init, CodeInv, Idle
<1> QED
  BY <1>1, <1>4, <1>5, <1>6, <1>7 DEF Init, Inv, OneAccessPerCode

-----------------------------------------------------------------------------
(* Steps                                                                   *)

\* A row is an older one, perhaps without its code or access, or with the new token.
FromOld(id, old, row) ==
  /\ \A token \in Held(row) : token \in Held(old) \/ (last < token /\ token <= last')
  /\ Code(row) = Code(old) \/ Code(row) = NoToken \/ Code(row) > last

\* A step that invents no rows and makes the new token, if any, for one identity.
RowsFollow(made) ==
  /\ last' >= last
  /\ \A id \in Ids, row \in Rows : KeptRow(id, row)' =>
       \E old \in Rows : KeptRow(id, old) /\ FromOld(id, old, row)
  /\ \A id \in Ids, row \in Rows : LiveRow(id, row)' =>
       \/ \E old \in Rows : LiveRow(id, old) /\ FromOld(id, old, row)
       \/ \A c \in Clients : call'[c].pc = "idle"
  /\ \A id \in Ids, row \in Rows : KeptRow(id, row)' /\ Code(row) > last => id = made

\* No call gets to this await.
NoNew(pc) == \A c \in Clients : call'[c].pc = pc => call'[c] = call[c]

\* The calls know of no token that does not exist.
CallsKnow == \A c \in Clients :
  call'[c] = call[c] \/ (call'[c].token <= last' /\ call'[c].code <= last')

LEMMA Numbers ==
  ASSUME TypeOK
  PROVE  /\ last \in Nat /\ \A id \in Ids : ended[id] \in Nat
         /\ \A c \in Clients : call[c] \in Calls /\ call[c].token \in Nat /\ call[c].code \in Nat
         /\ \A row \in Rows : Held(row) \subseteq Nat /\ Code(row) \in Nat
         /\ \A grant \in delivered : grant.code \in Nat /\ grant.code # NoToken
<1>1. Tokens \subseteq Nat /\ NoToken \in Nat /\ NoToken \notin Tokens
  BY DEF Tokens, NoToken
<1> QED
  BY <1>1 DEF TypeOK, Calls, Rows, Row, Held, Code

\* The codes of the rows exist.
LEMMA RowCodes ==
  ASSUME Inv
  PROVE  \A id \in Ids, row \in Rows : KeptRow(id, row) => ~(Code(row) > last)
<1>1. \A row \in Rows : Code(row) # NoToken => Code(row) \in Held(row)
  BY DEF Code, Held
<1> QED
  BY <1>1, Numbers DEF Inv, TokenInv, NoToken

LEMMA TokensFollow ==
  ASSUME Inv, TypeOK', NEW made, RowsFollow(made), CallsKnow, delivered' = delivered,
         \A id \in Ids : ended'[id] <= last'
  PROVE  TokenInv'
<1>1. \A id \in Ids, row \in Rows :
        KeptRow(id, row)' => \A token \in Held(row) : token <= last'
  <2> SUFFICES ASSUME NEW id \in Ids, NEW row \in Rows, KeptRow(id, row)',
                      NEW token \in Held(row)
               PROVE  token <= last'
    OBVIOUS
  <2>1. PICK old \in Rows : KeptRow(id, old) /\ FromOld(id, old, row)
    BY DEF RowsFollow
  <2>2. last \in Nat /\ last' \in Nat /\ last' >= last
    BY Numbers DEF Inv, TypeOK, RowsFollow, Tokens, NoToken
  <2>3. token \in Nat
    BY Numbers DEF Inv
  <2> QED
    BY <2>1, <2>2, <2>3 DEF Inv, TokenInv, FromOld
<1>2. \A c \in Clients : call'[c].token <= last' /\ call'[c].code <= last'
  <2>1. last \in Nat /\ last' \in Nat /\ last' >= last
    BY Numbers DEF Inv, TypeOK, RowsFollow, Tokens, NoToken
  <2>2. \A c \in Clients : call[c].token <= last /\ call[c].code <= last
    BY DEF Inv, TokenInv
  <2> QED
    BY <2>1, <2>2, Numbers DEF Inv, CallsKnow
<1>3. \A grant \in delivered' : grant.code <= last'
  <2>1. last \in Nat /\ last' \in Nat /\ last' >= last
    BY Numbers DEF Inv, TypeOK, RowsFollow, Tokens, NoToken
  <2> QED
    BY <2>1, Numbers DEF Inv, TokenInv
<1> QED
  BY <1>1, <1>2, <1>3 DEF TokenInv

LEMMA EndedFollows ==
  ASSUME Inv, TypeOK', NEW made, RowsFollow(made), NoNew("revoke_save"), ended' = ended
  PROVE  EndedInv'
<1>1. \A id \in Ids, row \in Rows :
        KeptRow(id, row)' => \A token \in Held(row) : token > ended'[id]
  BY Numbers DEF Inv, TokenInv, EndedInv, RowsFollow, FromOld
<1>2. ASSUME NEW id \in Ids, NEW row \in Rows, LiveRow(id, row)', NEW c \in Clients,
             call'[c].pc = "revoke_save", call'[c].id = id, NEW token \in Held(row)
      PROVE  token > call'[c].token
  <2>1. call'[c] = call[c]
    BY <1>2 DEF NoNew
  <2>2. PICK old \in Rows : LiveRow(id, old) /\ FromOld(id, old, row)
    BY <1>2 DEF RowsFollow
  <2>3. CASE token \in Held(old)
    BY <1>2, <2>1, <2>2, <2>3 DEF Inv, EndedInv
  <2>4. CASE last < token
    BY <2>1, <2>4, Numbers DEF Inv, TokenInv
  <2> QED
    BY <2>2, <2>3, <2>4 DEF FromOld
<1> QED
  BY <1>1, <1>2 DEF EndedInv

LEMMA CodesFollow ==
  ASSUME Inv, TypeOK', NEW made, RowsFollow(made), NoNew("redeem_save"),
         delivered' = delivered
  PROVE  CodeInv'
<1>1. ASSUME NEW id \in Ids, NEW other \in Ids, NEW row \in Rows, NEW row2 \in Rows,
             KeptRow(id, row)', KeptRow(other, row2)', Code(row) = Code(row2),
             Code(row) # NoToken
      PROVE  id = other
  <2>1. PICK old \in Rows : KeptRow(id, old) /\ FromOld(id, old, row)
    BY <1>1 DEF RowsFollow
  <2>2. PICK old2 \in Rows : KeptRow(other, old2) /\ FromOld(other, old2, row2)
    BY <1>1 DEF RowsFollow
  <2>3. CASE Code(row) > last
    BY <1>1, <2>3 DEF RowsFollow
  <2>4. CASE ~(Code(row) > last)
    BY <1>1, <2>1, <2>2, <2>4 DEF FromOld, Inv, CodeInv
  <2> QED
    BY <2>3, <2>4
<1>2. ASSUME NEW c \in Clients, call'[c].pc = "redeem_save"
      PROVE  /\ call'[c].code # NoToken
             /\ \A id \in Ids, row \in Rows : LiveRow(id, row)' => Code(row) # call'[c].code
             /\ \A d \in Clients :
                  call'[d].pc = "redeem_save" /\ call'[d].code = call'[c].code => d = c
             /\ \A grant \in delivered' : grant.code # call'[c].code
  <2>1. \A d \in Clients : call'[d].pc = "redeem_save" => call'[d] = call[d]
    BY DEF NoNew
  <2>2. ASSUME NEW id \in Ids, NEW row \in Rows, LiveRow(id, row)'
        PROVE  Code(row) # call'[c].code
    <3>1. PICK old \in Rows : LiveRow(id, old) /\ FromOld(id, old, row)
      BY <1>2, <2>2 DEF RowsFollow
    <3>2. Code(old) # call[c].code /\ call[c].code # NoToken
      BY <1>2, <2>1, <3>1 DEF Inv, CodeInv
    <3>3. call[c].code <= last
      BY DEF Inv, TokenInv
    <3> QED
      BY <1>2, <2>1, <3>1, <3>2, <3>3, Numbers DEF Inv, FromOld
  <2> QED
    BY <1>2, <2>1, <2>2 DEF Inv, CodeInv
<1>3. ASSUME NEW grant \in delivered', NEW id \in Ids, NEW row \in Rows, KeptRow(id, row)'
      PROVE  Code(row) # grant.code
  <2>1. PICK old \in Rows : KeptRow(id, old) /\ FromOld(id, old, row)
    BY <1>3 DEF RowsFollow
  <2>2. Code(old) # grant.code /\ grant.code # NoToken /\ grant.code <= last
    BY <2>1, Numbers DEF Inv, CodeInv, TokenInv
  <2> QED
    BY <2>1, <2>2, Numbers DEF Inv, FromOld
<1> QED
  BY <1>1, <1>2, <1>3 DEF CodeInv

\* No row but those there were.
LEMMA RowsKept ==
  ASSUME Inv, TypeOK', last' = last,
         \A id \in Ids, row \in Rows : KeptRow(id, row)' => KeptRow(id, row),
         \A id \in Ids, row \in Rows :
           LiveRow(id, row)' => LiveRow(id, row) \/ (\A c \in Clients : call'[c].pc = "idle")
  PROVE  RowsFollow(None)
<1>1. \A id \in Ids, row \in Rows : FromOld(id, row, row)
  BY DEF FromOld
<1>2. \A id \in Ids, row \in Rows : KeptRow(id, row) => ~(Code(row) > last)
  BY RowCodes
<1> QED
  BY <1>1, <1>2, Numbers DEF RowsFollow, Inv

\* The row of one identity in memory becomes another.
LEMMA RowReplaced ==
  ASSUME Inv, TypeOK', NEW id \in Ids, last' >= last, disk' = disk,
         FromOld(id, ram[id], ram'[id]),
         \A i \in Ids, row \in Rows :
           LiveRow(i, row)' => LiveRow(i, row) \/ (i = id /\ row = ram'[id])
  PROVE  RowsFollow(id)
<1>1. \A i \in Ids, row \in Rows : FromOld(i, row, row)
  BY DEF FromOld
<1>2. \A i \in Ids, row \in Rows : KeptRow(i, row) => ~(Code(row) > last)
  BY RowCodes
<1>3. ram[id] \in Rows /\ LiveRow(id, ram[id]) /\ KeptRow(id, ram[id])
  BY DEF Inv, TypeOK, LiveRow, KeptRow
<1>4. \A i \in Ids, row \in Rows :
        KeptRow(i, row)' => KeptRow(i, row) \/ (i = id /\ row = ram'[id])
  BY DEF KeptRow
<1>5. \A i \in Ids, row \in Rows : LiveRow(i, row) => KeptRow(i, row)
  BY DEF KeptRow
<1> QED
  BY <1>1, <1>2, <1>3, <1>4, <1>5 DEF RowsFollow

-----------------------------------------------------------------------------
(* The actions                                                             *)

LEMMA CreateMonitorStep ==
  ASSUME SignalAssumption, Inv, NEW c \in Clients, NEW id \in Ids, CreateMonitor(c, id)
  PROVE  Inv'
<1> DEFINE new == [ram[id] EXCEPT !.pending = last + 1]
<1>1. /\ new \in Row /\ new # None /\ Code(new) = last + 1
      /\ Held(new) \subseteq Held(ram[id]) \cup {last + 1}
      /\ last \in Nat /\ last' = last + 1 /\ ram'[id] = new
  BY RowFacts DEF Inv, TypeOK, CreateMonitor, NewAccess, Rows, Row, Code, Held, Tokens,
                  NoToken, SignalAssumption
<1>2. TypeOK'
  BY <1>1 DEF SignalAssumption, Inv, TypeOK, CreateMonitor, NewAccess, Suspend, Rows,
              Calls, Writing, NoToken, Tokens
<1>3. \A i \in Ids, row \in Rows :
        LiveRow(i, row)' => LiveRow(i, row) \/ (i = id /\ row = ram'[id])
  BY DEF Inv, TypeOK, CreateMonitor, Suspend, LiveRow
<1>4. FromOld(id, ram[id], ram'[id])
  BY <1>1 DEF FromOld
<1>5. RowsFollow(id)
  BY <1>1, <1>2, <1>3, <1>4, RowReplaced DEF CreateMonitor
<1>6. NoNew("revoke_save") /\ NoNew("redeem_save") /\ CallsKnow
  BY <1>1 DEF Inv, TypeOK, CreateMonitor, Suspend, NoNew, CallsKnow, NoToken
<1>7. ForgetInv'
  BY DEF Inv, TypeOK, ForgetInv, CreateMonitor, Suspend
<1>8. TokenInv' /\ EndedInv' /\ CodeInv'
  <2>1. \A i \in Ids : ended'[i] <= last'
    BY <1>1, Numbers DEF Inv, TokenInv, CreateMonitor
  <2> QED
    BY <1>2, <1>5, <1>6, <2>1, TokensFollow, EndedFollows, CodesFollow DEF CreateMonitor
<1> QED
  BY <1>2, <1>7, <1>8 DEF Inv, OneAccessPerCode, CreateMonitor

LEMMA RevokeStep ==
  ASSUME SignalAssumption, Inv, NEW c \in Clients, NEW id \in Ids, Revoke(c, id)
  PROVE  Inv'
<1>1. ram'[id] = NewRow /\ last' = last /\ last \in Nat
  BY Numbers DEF Inv, TypeOK, Revoke
<1>2. TypeOK'
  BY RowFacts DEF SignalAssumption, Inv, TypeOK, Revoke, Suspend, Rows, Calls, Writing,
                  NoToken, Tokens
<1>3. \A i \in Ids, row \in Rows :
        LiveRow(i, row)' => LiveRow(i, row) \/ (i = id /\ row = ram'[id])
  BY DEF Inv, TypeOK, Revoke, Suspend, LiveRow
<1>4. FromOld(id, ram[id], ram'[id])
  BY <1>1, RowFacts DEF FromOld
<1>5. RowsFollow(id)
  BY <1>1, <1>2, <1>3, <1>4, RowReplaced DEF Revoke
<1>6. NoNew("redeem_save") /\ CallsKnow
  BY <1>1 DEF Inv, TypeOK, Revoke, Suspend, NoNew, CallsKnow, NoToken
<1>7. ForgetInv'
  BY DEF Inv, TypeOK, ForgetInv, Revoke, Suspend
<1>8. TokenInv' /\ CodeInv'
  <2>1. \A i \in Ids : ended'[i] <= last'
    BY <1>1, Numbers DEF Inv, TokenInv, Revoke
  <2> QED
    BY <1>2, <1>5, <1>6, <2>1, TokensFollow, CodesFollow DEF Revoke
<1>9. EndedInv'
  <2>1. \A row \in Rows : LiveRow(id, row)' => Held(row) = {}
    BY <1>1, RowFacts DEF Inv, TypeOK, ForgetInv, LiveRow, Revoke, Suspend
  <2>2. \A i \in Ids, row \in Rows :
          KeptRow(i, row)' => KeptRow(i, row) \/ (i = id /\ row = ram'[id])
    BY <1>3 DEF KeptRow, Revoke
  <2>3. \A i \in Ids, row \in Rows :
          KeptRow(i, row)' => \A token \in Held(row) : token > ended'[i]
    BY <1>1, <2>2, RowFacts DEF Inv, EndedInv, Revoke
  <2>4. \A d \in Clients : d # c => call'[d] = call[d]
    BY DEF Inv, TypeOK, Revoke, Suspend
  <2>5. call'[c].id = id
    BY DEF Inv, TypeOK, Revoke, Suspend
  <2> QED
    BY <1>3, <2>1, <2>3, <2>4, <2>5 DEF Inv, EndedInv
<1> QED
  BY <1>2, <1>7, <1>8, <1>9 DEF Inv, OneAccessPerCode, Revoke

LEMMA RedeemStep ==
  ASSUME SignalAssumption, Inv, NEW c \in Clients, NEW id \in Ids, Redeem(c, id)
  PROVE  Inv'
<1>1. PICK code \in shown :
        /\ ram[id].pending = code /\ ram[id] # None
        /\ ram' = [ram EXCEPT ![id] = [pending |-> NoToken, access |-> last + 1]]
        /\ Suspend(c, "redeem_save", id, last + 1, code, None)
  BY DEF Redeem, Authorized
<1> DEFINE new == [pending |-> NoToken, access |-> last + 1]
<1>2. /\ new \in Row /\ new # None /\ Code(new) = NoToken /\ Held(new) \subseteq {last + 1}
      /\ last \in Nat /\ last' = last + 1 /\ ram'[id] = new /\ last + 1 \in Tokens
  BY <1>1, RowFacts DEF Inv, TypeOK, Redeem, NewAccess, Row, Code, Held, Tokens,
                        NoToken, SignalAssumption
<1>3. code \in Tokens /\ code # NoToken /\ Code(ram[id]) = code
  <2>1. code \in Tokens
    BY <1>1 DEF Inv, TypeOK
  <2>2. code # NoToken
    BY <2>1 DEF Tokens, NoToken
  <2> QED
    BY <1>1, <2>1, <2>2 DEF Code
<1>4. TypeOK'
  BY <1>1, <1>2, <1>3 DEF SignalAssumption, Inv, TypeOK, Redeem, NewAccess, Suspend, Rows,
                          Calls, Writing
<1>5. \A i \in Ids, row \in Rows :
        LiveRow(i, row)' => LiveRow(i, row) \/ (i = id /\ row = ram'[id])
  BY <1>1 DEF Inv, TypeOK, Suspend, LiveRow
<1>6. FromOld(id, ram[id], ram'[id])
  BY <1>2 DEF FromOld
<1>7. RowsFollow(id)
  BY <1>2, <1>4, <1>5, <1>6, RowReplaced DEF Redeem
<1>8. \A d \in Clients : d # c => call'[d] = call[d]
  BY <1>1 DEF Inv, TypeOK, Suspend
<1>9. call'[c].pc = "redeem_save" /\ call'[c].token = last' /\ call'[c].code = code
  BY <1>1, <1>2 DEF Inv, TypeOK, Suspend
<1>10. ForgetInv'
  BY <1>1, <1>8, <1>9 DEF Inv, TypeOK, ForgetInv
<1>11. TokenInv' /\ EndedInv'
  <2>1. \A i \in Ids : ended'[i] <= last'
    BY <1>2, Numbers DEF Inv, TokenInv, Redeem
  <2>2. code <= last
    <3>1. code \in Held(ram[id]) /\ ram[id] \in Rows
      BY <1>1, <1>3 DEF Held, Inv, TypeOK
    <3> QED
      BY <3>1 DEF Inv, TokenInv, KeptRow, LiveRow
  <2>3. CallsKnow /\ NoNew("revoke_save")
    BY <1>2, <1>3, <1>8, <1>9, <2>2 DEF CallsKnow, NoNew, Tokens
  <2> QED
    BY <1>4, <1>7, <2>1, <2>3, TokensFollow, EndedFollows DEF Redeem
<1>12. CodeInv'
  <2>1. ram[id] \in Rows /\ LiveRow(id, ram[id]) /\ KeptRow(id, ram[id])
    BY DEF Inv, TypeOK, LiveRow, KeptRow
  <2>2. \A i \in Ids, row \in Rows :
          KeptRow(i, row)' => KeptRow(i, row) \/ Code(row) = NoToken
    BY <1>2, <1>5 DEF KeptRow, Redeem
  <2>3. \A i \in Ids, row \in Rows : LiveRow(i, row)' =>
          Code(row) = NoToken \/ (LiveRow(i, row) /\ Code(row) # code)
    <3>1. \A row : LiveRow(id, row)' => row = new
      BY <1>1, <1>2, <1>8, <1>9 DEF LiveRow, Inv, TypeOK, ForgetInv
    <3>2. \A i \in Ids, row \in Rows :
            i # id /\ LiveRow(i, row) /\ Code(row) # NoToken => Code(row) # code
      BY <1>3, <2>1 DEF Inv, CodeInv, KeptRow
    <3> QED
      BY <1>2, <1>5, <3>1, <3>2
  <2>4. \A d \in Clients : call[d].pc = "redeem_save" => call[d].code # code
    BY <1>3, <2>1 DEF Inv, CodeInv
  <2>5. \A grant \in delivered : grant.code # code /\ grant.code # NoToken
    BY <1>3, <2>1, Numbers DEF Inv, CodeInv
  <2>6. \A i, other \in Ids : \A row, row2 \in Rows :
          /\ KeptRow(i, row)' /\ KeptRow(other, row2)'
          /\ Code(row) = Code(row2) /\ Code(row) # NoToken
          => i = other
    BY <2>2 DEF Inv, CodeInv
  <2>7. ASSUME NEW d \in Clients, call'[d].pc = "redeem_save"
        PROVE  /\ call'[d].code # NoToken
               /\ \A i \in Ids, row \in Rows : LiveRow(i, row)' => Code(row) # call'[d].code
               /\ \A e \in Clients :
                    call'[e].pc = "redeem_save" /\ call'[e].code = call'[d].code => e = d
               /\ \A grant \in delivered' : grant.code # call'[d].code
    <3>1. CASE d = c
      BY <1>3, <1>8, <1>9, <2>3, <2>4, <2>5, <3>1 DEF Redeem
    <3>2. CASE d # c
      BY <1>3, <1>8, <1>9, <2>3, <2>4, <2>7, <3>2 DEF Inv, CodeInv, Redeem
    <3> QED
      BY <3>1, <3>2
  <2>8. \A grant \in delivered' : \A i \in Ids, row \in Rows :
          KeptRow(i, row)' => Code(row) # grant.code
    BY <2>2, <2>5 DEF Inv, CodeInv, Redeem
  <2> QED
    BY <2>6, <2>7, <2>8 DEF CodeInv
<1> QED
  BY <1>4, <1>10, <1>11, <1>12 DEF Inv, OneAccessPerCode, Redeem

LEMMA ForgetStep ==
  ASSUME SignalAssumption, Inv, NEW c \in Clients, NEW id \in Ids, Forget(c, id)
  PROVE  Inv'
<1>1. ram'[id] = None /\ last' = last /\ last \in Nat /\ ram[id] \in Rows
  BY Numbers DEF Inv, TypeOK, Forget
<1>2. TypeOK'
  BY <1>1, RowFacts DEF SignalAssumption, Inv, TypeOK, Forget, Suspend, Calls, Writing,
                        NoToken, Tokens
<1>3. \A i \in Ids, row \in Rows :
        LiveRow(i, row)' => LiveRow(i, row) \/ (i = id /\ row = ram'[id])
  BY <1>1 DEF Inv, TypeOK, Forget, Suspend, LiveRow
<1>4. FromOld(id, ram[id], ram'[id])
  BY <1>1, RowFacts DEF FromOld
<1>5. RowsFollow(id)
  BY <1>1, <1>2, <1>3, <1>4, RowReplaced DEF Forget
<1>6. NoNew("revoke_save") /\ NoNew("redeem_save") /\ CallsKnow
  BY <1>1 DEF Inv, TypeOK, Forget, Suspend, NoNew, CallsKnow, NoToken
<1>7. ForgetInv'
  BY DEF Inv, TypeOK, ForgetInv, Forget, Suspend, InFlight
<1>8. TokenInv' /\ EndedInv' /\ CodeInv'
  <2>1. \A i \in Ids : ended'[i] <= last'
    BY <1>1, Numbers DEF Inv, TokenInv, Forget
  <2> QED
    BY <1>2, <1>5, <1>6, <2>1, TokensFollow, EndedFollows, CodesFollow DEF Forget
<1> QED
  BY <1>2, <1>7, <1>8 DEF Inv, OneAccessPerCode, Forget

LEMMA EnrollStep ==
  ASSUME SignalAssumption, Inv, NEW c \in Clients, NEW id \in Ids, Enroll(c, id)
  PROVE  Inv'
<1>1. ram'[id] = NewRow /\ last' = last /\ last \in Nat
  BY Numbers DEF Inv, TypeOK, Enroll
<1>2. TypeOK'
  BY RowFacts DEF SignalAssumption, Inv, TypeOK, Enroll, Suspend, Rows, Calls, Writing,
                  NoToken, Tokens
<1>3. \A i \in Ids, row \in Rows :
        LiveRow(i, row)' => LiveRow(i, row) \/ (i = id /\ row = ram'[id])
  BY DEF Inv, TypeOK, Enroll, Suspend, LiveRow
<1>4. FromOld(id, ram[id], ram'[id])
  BY <1>1, RowFacts DEF FromOld
<1>5. RowsFollow(id)
  BY <1>1, <1>2, <1>3, <1>4, RowReplaced DEF Enroll
<1>6. NoNew("revoke_save") /\ NoNew("redeem_save") /\ CallsKnow
  BY <1>1 DEF Inv, TypeOK, Enroll, Suspend, NoNew, CallsKnow, NoToken
<1>7. ForgetInv'
  BY DEF Inv, TypeOK, ForgetInv, Enroll, Suspend, InFlight
<1>8. TokenInv' /\ EndedInv' /\ CodeInv'
  <2>1. \A i \in Ids : ended'[i] <= last'
    BY <1>1, Numbers DEF Inv, TokenInv, Enroll
  <2> QED
    BY <1>2, <1>5, <1>6, <2>1, TokensFollow, EndedFollows, CodesFollow DEF Enroll
<1> QED
  BY <1>2, <1>7, <1>8 DEF Inv, OneAccessPerCode, Enroll

\* A call that returns leaves no row behind that was not there.
LEMMA ReturnFacts ==
  ASSUME SignalAssumption, Inv, NEW c \in Clients, Return(c), last' = last
  PROVE  /\ call'[c] = Idle /\ \A d \in Clients : d # c => call'[d] = call[d]
         /\ call' \in [Clients -> Calls]
         /\ \A d \in Clients :
              /\ call'[d].pc \in Writing => call'[d].id \in Ids
              /\ call'[d].pc \in {"code_save", "redeem_save"} => call'[d].token \in Tokens
              /\ call'[d].pc = "redeem_save" => call'[d].code \in Tokens
         /\ NoNew("revoke_save") /\ NoNew("redeem_save") /\ CallsKnow
         /\ ram' = ram => \A id, row : LiveRow(id, row)' => LiveRow(id, row)
         /\ ram' = ram => ForgetInv'
<1>1. call'[c] = Idle /\ \A d \in Clients : d # c => call'[d] = call[d]
  BY DEF Return, Inv, TypeOK
<1>2. Idle \in Calls
  BY RowFacts DEF Idle, Calls
<1>3. call' \in [Clients -> Calls]
  BY <1>2 DEF Return, Inv, TypeOK
<1>4. \A d \in Clients :
        /\ call'[d].pc \in Writing => call'[d].id \in Ids
        /\ call'[d].pc \in {"code_save", "redeem_save"} => call'[d].token \in Tokens
        /\ call'[d].pc = "redeem_save" => call'[d].code \in Tokens
  BY <1>1 DEF Inv, TypeOK, Idle, Writing
<1>5. NoNew("revoke_save") /\ NoNew("redeem_save") /\ CallsKnow
  BY <1>1, Numbers DEF NoNew, CallsKnow, Idle, Inv, NoToken
<1>6. ram' = ram => \A id, row : LiveRow(id, row)' => LiveRow(id, row)
  BY <1>1 DEF LiveRow, Idle
<1>7. ram' = ram => ForgetInv'
  BY <1>1 DEF ForgetInv, Idle, Inv
<1> QED
  BY <1>1, <1>3, <1>4, <1>5, <1>6, <1>7

\* A return after a write, of which only the returned differs.
LEMMA SavedStep ==
  ASSUME SignalAssumption, Inv, TypeOK', NEW c \in Clients, Return(c),
         ram' = ram, disk' \in {disk, ram}, UNCHANGED <<last, left, throttled>>
  PROVE  /\ RowsFollow(None) /\ ForgetInv'
         /\ NoNew("revoke_save") /\ NoNew("redeem_save") /\ CallsKnow
<1>1. \A id, row : LiveRow(id, row)' => LiveRow(id, row)
  BY ReturnFacts
<1>2. \A id \in Ids, row \in Rows : KeptRow(id, row)' => KeptRow(id, row)
  BY <1>1 DEF KeptRow, LiveRow
<1> QED
  BY <1>1, <1>2, RowsKept, ReturnFacts

LEMMA CodeSavedStep ==
  ASSUME SignalAssumption, Inv, NEW c \in Clients, CodeSaved(c)
  PROVE  Inv'
<1>1. Return(c) /\ UNCHANGED <<ram, states, last, left, delivered, throttled, ended>>
      /\ disk' = ram
  BY DEF CodeSaved
<1>2. TypeOK'
  BY <1>1, ReturnFacts DEF CodeSaved, Inv, TypeOK
<1>3. /\ RowsFollow(None) /\ ForgetInv'
      /\ NoNew("revoke_save") /\ NoNew("redeem_save") /\ CallsKnow
  BY <1>1, <1>2, SavedStep
<1>4. \A i \in Ids : ended'[i] <= last'
  BY <1>1 DEF Inv, TokenInv
<1>5. TokenInv' /\ EndedInv' /\ CodeInv'
  BY <1>1, <1>2, <1>3, <1>4, TokensFollow, EndedFollows, CodesFollow
<1> QED
  BY <1>1, <1>2, <1>3, <1>5 DEF Inv, OneAccessPerCode

LEMMA RedeemSavedStep ==
  ASSUME SignalAssumption, Inv, NEW c \in Clients, RedeemSaved(c)
  PROVE  Inv'
<1> DEFINE grant == [access |-> call[c].token, code |-> call[c].code]
<1>1. /\ Return(c) /\ UNCHANGED <<ram, states, last, left, shown, throttled, ended>>
      /\ disk' = ram /\ call[c].pc = "redeem_save"
      /\ delivered' \in {delivered, delivered \cup {grant}}
  BY DEF RedeemSaved
<1>2. grant \in [access : Tokens, code : Tokens]
  BY <1>1 DEF Inv, TypeOK
<1>3. TypeOK'
  BY <1>1, <1>2, ReturnFacts DEF Inv, TypeOK
<1>4. /\ RowsFollow(None) /\ ForgetInv'
      /\ NoNew("revoke_save") /\ NoNew("redeem_save") /\ CallsKnow
  BY <1>1, <1>3, SavedStep
<1>5. /\ \A d \in Clients : call'[d].pc = "redeem_save" => d # c /\ call'[d] = call[d]
      /\ \A id, row : LiveRow(id, row)' => LiveRow(id, row)
      /\ \A id, row : KeptRow(id, row)' => LiveRow(id, row)
  BY <1>1, ReturnFacts DEF Idle, KeptRow, LiveRow
<1>6. EndedInv'
  BY <1>1, <1>3, <1>4, EndedFollows
<1>7. TokenInv'
  <2>1. call[c].code <= last
    BY DEF Inv, TokenInv
  <2>2. \A g \in delivered' : g.code <= last
    BY <1>1, <2>1 DEF Inv, TokenInv
  <2>3. \A id, row : LiveRow(id, row) => KeptRow(id, row)
    BY DEF KeptRow
  <2>4. \A d \in Clients : call'[d].token <= last' /\ call'[d].code <= last'
    BY <1>1, <1>4 DEF CallsKnow, Inv, TokenInv
  <2> QED
    BY <1>1, <1>5, <2>2, <2>3, <2>4 DEF Inv, TokenInv
<1>8. CodeInv'
  <2>1. \A id, row : LiveRow(id, row) => KeptRow(id, row)
    BY DEF KeptRow
  <2>2. \A id, other \in Ids : \A row, row2 \in Rows :
          /\ KeptRow(id, row)' /\ KeptRow(other, row2)'
          /\ Code(row) = Code(row2) /\ Code(row) # NoToken
          => id = other
    BY <1>5, <2>1 DEF Inv, CodeInv
  <2>3. \A d \in Clients : call[d].pc = "redeem_save" /\ d # c => call[d].code # call[c].code
    BY <1>1 DEF Inv, CodeInv
  <2>4. ASSUME NEW d \in Clients, call'[d].pc = "redeem_save"
        PROVE  /\ call'[d].code # NoToken
               /\ \A id \in Ids, row \in Rows : LiveRow(id, row)' => Code(row) # call'[d].code
               /\ \A e \in Clients :
                    call'[e].pc = "redeem_save" /\ call'[e].code = call'[d].code => e = d
               /\ \A g \in delivered' : g.code # call'[d].code
    BY <1>1, <1>5, <2>3, <2>4 DEF Inv, CodeInv
  <2>5. \A g \in delivered' : \A id \in Ids, row \in Rows :
          KeptRow(id, row)' => Code(row) # g.code
    BY <1>1, <1>5, <2>1 DEF Inv, CodeInv
  <2> QED
    BY <2>2, <2>4, <2>5 DEF CodeInv
<1>9. OneAccessPerCode'
  <2>1. \A g \in delivered : g.code # grant.code
    BY <1>1 DEF Inv, CodeInv
  <2> QED
    BY <1>1, <2>1 DEF Inv, OneAccessPerCode
<1> QED
  BY <1>3, <1>4, <1>6, <1>7, <1>8, <1>9 DEF Inv

\* What the caller of a revocation or of a removal is told: no row has it.
LEMMA AccessEndsStep ==
  ASSUME SignalAssumption, Inv, NEW c \in Clients, call[c].pc \in {"revoke_save", "forget_save"},
         AccessEnds(c), Return(c), TypeOK', disk' = ram,
         UNCHANGED <<ram, last, left, throttled, delivered>>
  PROVE  TokenInv' /\ EndedInv' /\ CodeInv' /\ ForgetInv'
<1>1. /\ RowsFollow(None) /\ ForgetInv'
      /\ NoNew("revoke_save") /\ NoNew("redeem_save") /\ CallsKnow
  BY SavedStep
<1>2. PICK me \in Ids : me = call[c].id
  BY DEF Inv, TypeOK, Writing
<1>3. \A i \in Ids : /\ i # me => ended'[i] = ended[i]
                     /\ i = me => ended'[i] \in {ended[i], call[c].token}
  BY <1>2 DEF AccessEnds, Inv, TypeOK
<1>4. \A i \in Ids : ended'[i] <= last'
  BY <1>3 DEF Inv, TokenInv
<1>5. TokenInv' /\ CodeInv'
  BY <1>1, <1>4, TokensFollow, CodesFollow
<1>6. EndedInv'
  <2>1. /\ \A id, row : LiveRow(id, row)' => LiveRow(id, row)
        /\ \A id, row : KeptRow(id, row)' => LiveRow(id, row)'
    BY ReturnFacts DEF KeptRow, LiveRow
  <2>2. \A id, row : LiveRow(id, row) => KeptRow(id, row)
    BY DEF KeptRow
  <2>3. \A row \in Rows : LiveRow(me, row)' =>
          \A token \in Held(row) : token > call[c].token
    <3>1. CASE call[c].pc = "revoke_save"
      <4>1. \A id \in Ids, row \in Rows : LiveRow(id, row) /\ id = me =>
              \A token \in Held(row) : token > call[c].token
        BY <1>2, <3>1 DEF Inv, EndedInv
      <4> QED
        BY <1>2, <2>1, <4>1
    <3>2. CASE call[c].pc = "forget_save"
      <4>1. ASSUME NEW row, LiveRow(me, row)'
            PROVE  row = None
        <5>1. ram'[me] = None
          BY <1>2, <3>2 DEF Inv, ForgetInv
        <5>2. call'[c].pc = "idle" /\ \A d \in Clients : d # c => call'[d] = call[d]
          BY ReturnFacts DEF Idle
        <5>3. \A d \in Clients : call'[d].pc # "forget_save"
          BY <3>2, <5>2 DEF Inv, ForgetInv
        <5> QED
          BY <4>1, <5>1, <5>3 DEF LiveRow
      <4> QED
        BY <4>1, RowFacts
    <3> QED
      BY <3>1, <3>2
  <2>4. \A id \in Ids, row \in Rows :
          KeptRow(id, row)' => \A token \in Held(row) : token > ended'[id]
    <3>1. \A id \in Ids, row \in Rows :
            KeptRow(id, row)' => \A token \in Held(row) : token > ended[id]
      BY <2>1, <2>2 DEF Inv, EndedInv
    <3>2. \A row \in Rows : KeptRow(me, row)' =>
            \A token \in Held(row) : token > call[c].token
      BY <2>1, <2>3
    <3>3. \A id \in Ids : ended'[id] = ended[id] \/ (id = me /\ ended'[id] = call[c].token)
      BY <1>3
    <3> QED
      BY <3>1, <3>2, <3>3
  <2>5. \A id \in Ids, row \in Rows : LiveRow(id, row)' =>
          \A d \in Clients : call'[d].pc = "revoke_save" /\ call'[d].id = id =>
            \A token \in Held(row) : token > call'[d].token
    BY <1>1, <2>1 DEF Inv, EndedInv, NoNew
  <2> QED
    BY <2>4, <2>5 DEF EndedInv
<1> QED
  BY <1>1, <1>5, <1>6

LEMMA RevokeSavedStep ==
  ASSUME SignalAssumption, Inv, NEW c \in Clients, RevokeSaved(c)
  PROVE  Inv'
<1>1. TypeOK'
  BY ReturnFacts DEF RevokeSaved, AccessEnds, Inv, TypeOK, Calls
<1> QED
  BY <1>1, AccessEndsStep DEF RevokeSaved, Inv, OneAccessPerCode

LEMMA ForgetSavedStep ==
  ASSUME SignalAssumption, Inv, NEW c \in Clients, ForgetSaved(c)
  PROVE  Inv'
<1>1. TypeOK'
  BY ReturnFacts DEF ForgetSaved, AccessEnds, RebuildStates, Inv, TypeOK, Calls
<1> QED
  BY <1>1, AccessEndsStep DEF ForgetSaved, Inv, OneAccessPerCode

LEMMA EnrollSavedStep ==
  ASSUME SignalAssumption, Inv, NEW c \in Clients, EnrollSaved(c)
  PROVE  Inv'
<1>1. Return(c) /\ UNCHANGED <<ram, last, left, shown, delivered, throttled, ended>>
      /\ disk' = ram
  BY DEF EnrollSaved
<1>2. TypeOK'
  BY <1>1, ReturnFacts DEF EnrollSaved, RebuildStates, Inv, TypeOK
<1>3. /\ RowsFollow(None) /\ ForgetInv'
      /\ NoNew("revoke_save") /\ NoNew("redeem_save") /\ CallsKnow
  BY <1>1, <1>2, SavedStep
<1>4. \A i \in Ids : ended'[i] <= last'
  BY <1>1 DEF Inv, TokenInv
<1>5. TokenInv' /\ EndedInv' /\ CodeInv'
  BY <1>1, <1>2, <1>3, <1>4, TokensFollow, EndedFollows, CodesFollow
<1> QED
  BY <1>1, <1>2, <1>3, <1>5 DEF Inv, OneAccessPerCode

\* A removal puts its row back, which no other removal holds.
LEMMA SaveFailsStep ==
  ASSUME SignalAssumption, Inv, NEW c \in Clients, SaveFails(c)
  PROVE  Inv'
<1>1. Return(c) /\ UNCHANGED <<disk, states, last, left, shown, delivered, throttled, ended>>
      /\ call[c].id \in Ids /\ call[c].row \in Rows
  BY DEF SaveFails, Inv, TypeOK, Calls
<1>2. TypeOK'
  BY <1>1, ReturnFacts DEF SaveFails, Inv, TypeOK
<1>3. NoNew("revoke_save") /\ NoNew("redeem_save") /\ CallsKnow
  BY <1>1, ReturnFacts
<1>4. RowsFollow(None) /\ ForgetInv'
  <2>1. CASE call[c].pc = "forget_save"
    <3>1. ram' = [ram EXCEPT ![call[c].id] = call[c].row]
      BY <2>1 DEF SaveFails
    <3>2. \A d \in Clients : call'[d].pc # "forget_save"
      BY <1>1, <2>1, ReturnFacts DEF Inv, ForgetInv, Idle
    <3>3. \A id \in Ids, row \in Rows : LiveRow(id, row)' => LiveRow(id, row)
      BY <1>1, <2>1, <3>1, <3>2 DEF LiveRow, Inv, TypeOK
    <3>4. \A id \in Ids, row \in Rows : KeptRow(id, row)' => KeptRow(id, row)
      BY <1>1, <3>3 DEF KeptRow
    <3> QED
      BY <1>1, <1>2, <3>2, <3>3, <3>4, RowsKept DEF ForgetInv
  <2>2. CASE call[c].pc # "forget_save"
    <3>1. ram' = ram
      BY <2>2 DEF SaveFails
    <3> QED
      BY <1>1, <1>2, <3>1, SavedStep
  <2> QED
    BY <2>1, <2>2
<1>5. \A i \in Ids : ended'[i] <= last'
  BY <1>1 DEF Inv, TokenInv
<1>6. TokenInv' /\ EndedInv' /\ CodeInv'
  BY <1>1, <1>2, <1>3, <1>4, <1>5, TokensFollow, EndedFollows, CodesFollow
<1> QED
  BY <1>1, <1>2, <1>4, <1>6 DEF Inv, OneAccessPerCode

LEMMA StoreWrittenStep ==
  ASSUME SignalAssumption, Inv, StoreWritten
  PROVE  Inv'
<1>1. TypeOK'
  BY DEF StoreWritten, Inv, TypeOK
<1>2. \A id, row : LiveRow(id, row)' <=> LiveRow(id, row)
  BY DEF LiveRow, StoreWritten
<1>3. \A id, row : KeptRow(id, row)' => KeptRow(id, row)
  BY <1>2 DEF KeptRow, LiveRow, StoreWritten
<1>4. RowsFollow(None)
  BY <1>1, <1>2, <1>3, RowsKept DEF StoreWritten
<1>5. NoNew("revoke_save") /\ NoNew("redeem_save") /\ CallsKnow
  BY DEF NoNew, CallsKnow, StoreWritten
<1>6. ForgetInv' /\ \A i \in Ids : ended'[i] <= last'
  BY DEF StoreWritten, Inv, ForgetInv, TokenInv
<1>7. TokenInv' /\ EndedInv' /\ CodeInv'
  BY <1>1, <1>4, <1>5, <1>6, TokensFollow, EndedFollows, CodesFollow DEF StoreWritten
<1> QED
  BY <1>1, <1>6, <1>7 DEF Inv, OneAccessPerCode, StoreWritten

LEMMA RestartStep ==
  ASSUME SignalAssumption, Inv, Restart
  PROVE  Inv'
<1>1. \A c \in Clients : call'[c] = Idle
  BY DEF Restart
<1>2. TypeOK'
  BY RowFacts DEF Restart, Inv, TypeOK, Calls, Idle, Writing, NoToken, Tokens
<1>3. \A id \in Ids, row \in Rows : KeptRow(id, row)' => KeptRow(id, row)
  BY <1>1 DEF KeptRow, LiveRow, Restart, Idle
<1>4. \A c \in Clients : call'[c].pc = "idle"
  BY <1>1 DEF Idle
<1>5. RowsFollow(None)
  BY <1>2, <1>3, <1>4, RowsKept DEF Restart
<1>6. NoNew("revoke_save") /\ NoNew("redeem_save") /\ CallsKnow
  BY <1>1, <1>2, Numbers DEF NoNew, CallsKnow, Idle, NoToken, Inv, Restart
<1>7. ForgetInv' /\ \A i \in Ids : ended'[i] <= last'
  BY <1>4 DEF Restart, Inv, ForgetInv, TokenInv
<1>8. TokenInv' /\ EndedInv' /\ CodeInv'
  BY <1>2, <1>5, <1>6, <1>7, TokensFollow, EndedFollows, CodesFollow DEF Restart
<1> QED
  BY <1>2, <1>7, <1>8 DEF Inv, OneAccessPerCode, Restart

\* Reads and the passing of time touch no row, no call and no code.
LEMMA OtherStep ==
  ASSUME SignalAssumption, Inv,
         \/ Tick \/ UNCHANGED vars
         \/ \E id \in Ids : Read(id) \/ LimitLifts(id)
  PROVE  Inv'
<1>1. UNCHANGED <<ram, disk, states, last, call, shown, delivered, ended>>
  BY DEF Tick, Read, LimitLifts, vars
<1>2. left' \in [Tokens -> Nat] /\ throttled' \subseteq Ids
  BY DEF Tick, Read, LimitLifts, vars, Inv, TypeOK
<1> QED
  BY <1>1, <1>2 DEF Inv, TypeOK, TokenInv, ForgetInv, EndedInv, CodeInv, OneAccessPerCode,
                    KeptRow, LiveRow

-----------------------------------------------------------------------------
(* Theorems                                                                *)

LEMMA NextStep == ASSUME SignalAssumption, Inv, [Next]_vars PROVE Inv'
<1>1. ASSUME NEW c \in Clients, CallStep(c) PROVE Inv'
  BY <1>1, CreateMonitorStep, RevokeStep, RedeemStep, ForgetStep, EnrollStep, CodeSavedStep,
     RevokeSavedStep, RedeemSavedStep, ForgetSavedStep, EnrollSavedStep, SaveFailsStep
  DEF CallStep
<1> QED
  BY <1>1, OtherStep, StoreWrittenStep, RestartStep DEF Next

\* The inductive invariant: where a token may be, and who may still bring it back.
THEOREM Invariance == SignalAssumption => (Spec => []Inv)
<1>1. SignalAssumption /\ Init => Inv
  BY InitInv
<1>2. SignalAssumption /\ Inv /\ [Next]_vars => Inv'
  BY NextStep
<1> QED
  BY <1>1, <1>2, SignalAssumption, PTL DEF Spec

\* The variables keep their types.
THEOREM TypeCorrect == Spec => []TypeOK
<1>1. Inv => TypeOK
  BY DEF Inv
<1> QED
  BY <1>1, Invariance, SignalAssumption, PTL

\* A code of the signal QR gives one app access: SignalView.post uses it up in memory
\* before it waits for the store, and answers after it.
THEOREM CodeUsedOnce == Spec => []OneAccessPerCode
<1>1. Inv => OneAccessPerCode
  BY DEF Inv
<1> QED
  BY <1>1, Invariance, SignalAssumption, PTL

\* After a revocation or a removal has been answered no row of the identity, in memory
\* or in the store, has a token from before it.
THEOREM RevocationIsFinal == Spec => []EndedStaysEnded
<1>1. Inv => EndedStaysEnded
  <2>1. ASSUME Inv, NEW id \in Ids, NEW token \in Held(ram[id]) \cup Held(disk[id])
        PROVE  token > ended[id]
    <3>1. ram[id] \in Rows /\ disk[id] \in Rows /\ KeptRow(id, ram[id]) /\ KeptRow(id, disk[id])
      BY <2>1 DEF Inv, TypeOK, KeptRow, LiveRow
    <3> QED
      BY <2>1, <3>1 DEF Inv, EndedInv
  <2> QED
    BY <2>1 DEF EndedStaysEnded
<1> QED
  BY <1>1, Invariance, SignalAssumption, PTL
=============================================================================
