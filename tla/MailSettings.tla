---------------------------- MODULE MailSettings ----------------------------
(* The mail server of the realm and the credential issuer, on the same tab   *)
(* (components/AuthenticationSettings; GetSmtp, UpdateSmtp and TestSmtp of   *)
(* handlers/keycloak_settings.go). Keycloak never gives the stored password  *)
(* back: the admin API reads a mask in its place, and keeps the password     *)
(* when the mask is written back. Of the other fields one stands for all.    *)
EXTENDS Naturals, FiniteSets

CONSTANTS
    Passwords, Blank, Mask,
    Hosts,              \* the values of the other fields, and of the issuer
    InitialServer,      \* the mail server at first
    MaxCalls            \* bound: calls under way

\* Assumed of the constants (Console).
MailAssumption ==
    /\ Blank \notin Passwords \cup Hosts /\ Mask \notin Passwords \cup {Blank} /\ MaxCalls \in Nat
    /\ InitialServer \in [host : Hosts \cup {Blank}, auth : BOOLEAN, password : Passwords \cup {Blank}]

VARIABLES
    smtp, issuer,   \* the realm's mail server, the portal's issuer setting
    mail,           \* the mounted card, or Closed
    mailCalls,      \* its calls under way
    tested          \* the password a test mail was just sent with, or Blank

vars == <<smtp, issuer, mail, mailCalls, tested>>

-----------------------------------------------------------------------------
Closed == [open |-> FALSE]
Nothing == [none |-> TRUE]
Texts == Hosts \cup {Blank}
Server == [host : Texts, auth : BOOLEAN, password : Passwords \cup {Blank}]
Card == [open : {TRUE}, loading : BOOLEAN, host : Texts, auth : BOOLEAN,
         password : Passwords \cup {Blank}, busy : BOOLEAN, issuer : Texts, issuerBusy : BOOLEAN]
Room == Cardinality(mailCalls) < MaxCalls
Quiet == tested' = Blank

Enter ==
    /\ mail = Closed
    /\ mail' = [open |-> TRUE, loading |-> TRUE, host |-> Blank, auth |-> FALSE,
                password |-> Blank, busy |-> FALSE, issuer |-> Blank, issuerBusy |-> FALSE]
    /\ mailCalls' = {[kind |-> "smtp", answer |-> Nothing], [kind |-> "issuer", answer |-> Nothing]}
    /\ Quiet /\ UNCHANGED <<smtp, issuer>>

\* The mail form is hidden while it loads; the issuer's field never is.
Edit ==
    /\ mail # Closed /\ ~mail.loading
    /\ \/ \E h \in Texts : mail' = [mail EXCEPT !.host = h]
       \/ mail' = [mail EXCEPT !.auth = ~@]
       \/ \E s \in Passwords \cup {Blank} : mail.auth /\ mail' = [mail EXCEPT !.password = s]
    /\ Quiet /\ UNCHANGED <<smtp, issuer, mailCalls>>

EditIssuer(v) ==
    /\ mail # Closed /\ mail.issuer # v
    /\ mail' = [mail EXCEPT !.issuer = v]
    /\ Quiet /\ UNCHANGED <<smtp, issuer, mailCalls>>

\* Without authentication no password goes out.
smtpPayload(p) ==
    [host |-> p.host, auth |-> p.auth, password |-> IF p.auth THEN p.password ELSE Blank]

Send(kind) ==
    /\ mail # Closed /\ ~mail.loading /\ ~mail.busy /\ Room
    /\ mailCalls' = mailCalls \cup {[kind |-> kind, body |-> smtpPayload(mail)]}
    /\ mail' = [mail EXCEPT !.busy = TRUE]
    /\ Quiet /\ UNCHANGED <<smtp, issuer>>

saveVcIssuer ==
    /\ mail # Closed /\ ~mail.issuerBusy /\ Room
    /\ mailCalls' = mailCalls \cup {[kind |-> "saveIssuer", value |-> mail.issuer]}
    /\ mail' = [mail EXCEPT !.issuerBusy = TRUE]
    /\ Quiet /\ UNCHANGED <<smtp, issuer>>

-----------------------------------------------------------------------------
\* What the admin API reads, and what a write of it stores.
fetched == [smtp EXCEPT !.password = IF @ = Blank THEN Blank ELSE Mask]
Stored(r) == [r EXCEPT !.password = IF @ = Mask THEN smtp.password ELSE @]

\* Mutant: a blank password is stored.
takeSmtp(current, incoming) == incoming
mergeSmtp(current, incoming) ==
    [incoming EXCEPT !.password = IF @ = Blank THEN current.password ELSE @]

UpdateSmtp(c) ==
    c.kind = "save" /\ smtp' = Stored(mergeSmtp(fetched, c.body)) /\ UNCHANGED issuer

SaveIssuer(c) == c.kind = "saveIssuer" /\ issuer' = c.value /\ UNCHANGED smtp

\* A test with authentication needs a password that was typed.
Usable(settings) == settings.auth => settings.password \notin {Blank, Mask}
TestSmtp(c) ==
    LET settings == mergeSmtp(fetched, c.body) IN
    /\ c.kind = "test" /\ Usable(settings)
    /\ tested' = IF settings.auth THEN settings.password ELSE Blank

Ended(c, p) ==
    IF c.kind = "saveIssuer" THEN [p EXCEPT !.issuerBusy = FALSE] ELSE [p EXCEPT !.busy = FALSE]

Done(c) ==
    /\ c \in mailCalls
    /\ \/ (UpdateSmtp(c) \/ SaveIssuer(c)) /\ Quiet
       \/ TestSmtp(c) /\ UNCHANGED <<smtp, issuer>>
    /\ mail' = Ended(c, mail) /\ mailCalls' = mailCalls \ {c}

\* Refused, or lost before or after it was done. The form stays as it is.
Fails(c) ==
    /\ c \in mailCalls /\ c.kind \in {"save", "test", "saveIssuer"}
    /\ UNCHANGED <<smtp, issuer>> \/ UpdateSmtp(c) \/ SaveIssuer(c)
    /\ mail' = Ended(c, mail) /\ mailCalls' = mailCalls \ {c} /\ Quiet

Serve(c) ==
    /\ c \in mailCalls /\ c.kind \in {"smtp", "issuer"} /\ c.answer = Nothing
    /\ mailCalls' = (mailCalls \ {c}) \cup
         {[c EXCEPT !.answer = IF c.kind = "smtp" THEN [host |-> smtp.host, auth |-> smtp.auth]
                               ELSE [value |-> issuer]]}
    /\ Quiet /\ UNCHANGED <<smtp, issuer, mail>>

Arrive(c) ==
    /\ c \in mailCalls /\ c.kind \in {"smtp", "issuer"} /\ c.answer # Nothing
    /\ mail' = IF c.kind = "issuer" THEN [mail EXCEPT !.issuer = c.answer.value]
               ELSE [mail EXCEPT !.loading = FALSE, !.host = c.answer.host,
                                 !.auth = c.answer.auth, !.password = Blank]
    /\ mailCalls' = mailCalls \ {c} /\ Quiet
    /\ UNCHANGED <<smtp, issuer>>

\* The field or the form is left blank and can be edited.
LoadFails(c) ==
    /\ c \in mailCalls /\ c.kind \in {"smtp", "issuer"}
    /\ mail' = IF c.kind = "smtp" THEN [mail EXCEPT !.loading = FALSE] ELSE mail
    /\ mailCalls' = mailCalls \ {c} /\ Quiet
    /\ UNCHANGED <<smtp, issuer>>

\* A write under way is done or not; its answer reaches no card.
Leave ==
    /\ mail # Closed
    /\ mail' = Closed /\ mailCalls' = {} /\ Quiet
    /\ UNCHANGED <<smtp, issuer>> \/ \E c \in mailCalls : UpdateSmtp(c) \/ SaveIssuer(c)

Init ==
    /\ smtp = InitialServer /\ issuer = Blank
    /\ mail = Closed /\ mailCalls = {} /\ tested = Blank

Work ==
    \/ Edit \/ saveVcIssuer \/ Leave
    \/ \E kind \in {"save", "test"} : Send(kind)
    \/ \E v \in Texts : EditIssuer(v)
    \/ \E c \in mailCalls : Done(c) \/ Fails(c) \/ Serve(c) \/ Arrive(c) \/ LoadFails(c)

Spec == Init /\ [][Enter \/ Work]_vars

-----------------------------------------------------------------------------
\* The stored settings and the card have the shape the code gives them; the mask
\* is never stored.
TypeOK ==
    /\ smtp \in Server /\ issuer \in Texts
    /\ mail \in {Closed} \cup Card
    /\ tested \in Passwords \cup {Blank, Mask}

(* A mail server that logs in keeps a password to log in with, through saves *)
(* from a form that never saw it ("blank password keeps the stored one",     *)
(* UpdateSmtp), whatever was switched off and on in between.                 *)
PasswordStays ==
    [][smtp.password # Blank => smtp'.password # Blank]_smtp

(* A test that was sent tried a password somebody typed, never the mask the  *)
(* stored one is read as (TestSmtp).                                         *)
TestsTryAPassword == tested # Mask
=============================================================================
