------------------------------ MODULE Mailbox ------------------------------
(***************************************************************************)
(* The two mailboxes of the companion server (companion.py) through which  *)
(* the Mac's holder app and the phone exchange a challenge, the phone's    *)
(* signature and the holder's receipt.  Each handler runs in a thread of   *)
(* its own and touches a mailbox in one block under phone_lock.  A client  *)
(* waits five seconds: a post it has given up is handled later, after      *)
(* newer ones, and may be handled twice.  A challenge is named by a model  *)
(* value that stands for its id and its bytes; a signature or a receipt by *)
(* the challenge it was made for.                                          *)
(***************************************************************************)
EXTENDS Naturals, FiniteSets

CONSTANTS
    PhoneChallenges,  \* challenges the holder issues to enroll a phone
    ExactChallenges,  \* retained exact runs the phone is asked to sign
    Blank,            \* None
    MaxPosts,         \* posts on their way at once
    MaxRepeats        \* posts that are handled once more

VARIABLES
    phone,    \* phone_mailbox
    exact,    \* exact_run_mailbox
    posts,    \* posts whose handler has not run
    handled,  \* posts that may be handled again, and how many were
    mac,      \* the Mac app: pendingPhone, and the publication it waits for
    issued,   \* challenges and exact runs published so far
    fetched,  \* what the phone read and may sign
    sealed    \* challenges whose receipt the holder sealed

mailVars == <<phone, exact, posts, handled, mac, issued, fetched, sealed>>

Emptied == [challenge |-> Blank, signature |-> Blank, verification |-> Blank,
            invalidated |-> FALSE, receipts |-> {}]
Post(route, of) == [route |-> route, of |-> of]
Sent(post) == Cardinality(posts) < MaxPosts /\ posts' = posts \cup {post}

-----------------------------------------------------------------------------
(* The handlers of do_POST, each one block under phone_lock; the value is  *)
(* the mailbox it leaves, the same one when it answers 409.                *)

PeerChallenge(c) == [Emptied EXCEPT !.challenge = c]

PeerSignature(c) ==
    IF phone.challenge # c THEN phone ELSE [phone EXCEPT !.signature = c]

\* Mutant: the id in the post is not compared.
AnyVerification(c) ==
    IF phone.invalidated \/ phone.challenge = Blank \/ c \in phone.receipts THEN phone
    ELSE [phone EXCEPT !.verification = c, !.receipts = @ \cup {c}]
PeerVerification(c) ==
    IF phone.invalidated \/ phone.challenge # c \/ c \in phone.receipts THEN phone
    ELSE [phone EXCEPT !.verification = c, !.receipts = @ \cup {c}]

\* The id in the post is recorded, not compared: whatever is held is cleared.
PeerInvalidate == [Emptied EXCEPT !.invalidated = TRUE]

ExactChallenge(r) == [challenge |-> r, signature |-> Blank]
ExactSignature(r) == IF exact.challenge # r THEN exact ELSE [exact EXCEPT !.signature = r]

Handle(p) ==
    /\ phone' = CASE p.route = "phone-peer-challenge" -> PeerChallenge(p.of)
                  [] p.route = "phone-peer-signature" -> PeerSignature(p.of)
                  [] p.route = "phone-peer-verification" -> PeerVerification(p.of)
                  [] p.route = "phone-peer-invalidate" -> PeerInvalidate
                  [] OTHER -> phone
    /\ exact' = CASE p.route = "exact-peer-challenge" -> ExactChallenge(p.of)
                  [] p.route = "exact-peer-signature" -> ExactSignature(p.of)
                  [] OTHER -> exact

HandlePost ==
    \E p \in posts :
        /\ Handle(p)
        /\ posts' = posts \ {p} /\ handled' = [handled EXCEPT !.posts = @ \cup {p}]
        /\ UNCHANGED <<mac, issued, fetched, sealed>>

HandleAgain ==
    \E p \in handled.posts :
        /\ handled.again < MaxRepeats /\ handled' = [handled EXCEPT !.again = @ + 1]
        /\ Handle(p)
        /\ UNCHANGED <<posts, mac, issued, fetched, sealed>>

-----------------------------------------------------------------------------
(* What do_GET serves.                                                     *)

ServedChallenge == phone.challenge
ServedSignature ==
    IF phone.invalidated \/ phone.challenge = Blank \/ phone.signature # phone.challenge THEN Blank
    ELSE phone.signature
ServedVerification == IF phone.invalidated THEN Blank ELSE phone.verification
ServedExact == exact.challenge
ServedExactSignature ==
    IF exact.challenge = Blank \/ exact.signature # exact.challenge THEN Blank ELSE exact.signature

-----------------------------------------------------------------------------
(* The Mac: publish, collect, seal.  publish sets pendingPhone only when   *)
(* it is answered; a publication that was given up may still be handled.   *)

Publish(c) ==
    /\ mac.awaits = Blank /\ c \notin issued
    /\ mac' = [mac EXCEPT !.awaits = c] /\ issued' = issued \cup {c}
    /\ Sent(Post("phone-peer-challenge", c))
    /\ UNCHANGED <<phone, exact, handled, fetched, sealed>>

Published ==
    /\ mac.awaits # Blank
    /\ mac' \in {[pending |-> p, awaits |-> Blank] :
                 p \in {mac.pending}
                       \cup (IF Post("phone-peer-challenge", mac.awaits) \in posts THEN {} ELSE {mac.awaits})}
    /\ UNCHANGED <<phone, exact, posts, handled, issued, fetched, sealed>>

\* The signature is the one asked for: the holder consumes the challenge and
\* seals a receipt, which is posted.  A stale challenge is cancelled.
Collect ==
    /\ mac.awaits = Blank /\ mac.pending # Blank
    /\ \/ /\ ServedSignature = mac.pending
          /\ sealed' = sealed \cup {mac.pending}
          /\ Sent(Post("phone-peer-verification", mac.pending))
       \/ /\ phone.invalidated /\ UNCHANGED <<posts, sealed>>
    /\ mac' = [mac EXCEPT !.pending = Blank]
    /\ UNCHANGED <<phone, exact, handled, issued, fetched>>

CancelPhone ==
    /\ mac.awaits = Blank /\ mac.pending # Blank
    /\ mac' = [mac EXCEPT !.pending = Blank]
    /\ UNCHANGED <<phone, exact, posts, handled, issued, fetched, sealed>>

PublishExact(r) ==
    /\ r \notin issued /\ issued' = issued \cup {r}
    /\ Sent(Post("exact-peer-challenge", r))
    /\ UNCHANGED <<phone, exact, handled, mac, fetched, sealed>>

-----------------------------------------------------------------------------
(* The phone: fetch, sign and submit; a signing that was superseded while  *)
(* it was submitted invalidates the challenge it signed.                   *)

Fetch ==
    /\ \E c \in {ServedChallenge, ServedExact} \ {Blank} :
          c \notin fetched /\ fetched' = fetched \cup {c}
    /\ UNCHANGED <<phone, exact, posts, handled, mac, issued, sealed>>

Submit(c) ==
    /\ c \in fetched
    /\ Sent(Post(IF c \in PhoneChallenges THEN "phone-peer-signature" ELSE "exact-peer-signature", c))
    /\ UNCHANGED <<phone, exact, handled, mac, issued, fetched, sealed>>

Invalidate(c) ==
    /\ c \in fetched \cap PhoneChallenges
    /\ Post("phone-peer-signature", c) \in handled.posts
    /\ fetched' = fetched \ {c} /\ Sent(Post("phone-peer-invalidate", c))
    /\ UNCHANGED <<phone, exact, handled, mac, issued, sealed>>

-----------------------------------------------------------------------------

MailInit ==
    /\ phone = Emptied /\ exact = [challenge |-> Blank, signature |-> Blank]
    /\ posts = {} /\ handled = [posts |-> {}, again |-> 0]
    /\ mac = [pending |-> Blank, awaits |-> Blank]
    /\ issued = {} /\ fetched = {} /\ sealed = {}

MailNext ==
    \/ HandlePost \/ HandleAgain \/ Published \/ Collect \/ CancelPhone \/ Fetch
    \/ \E c \in PhoneChallenges : Publish(c) \/ Invalidate(c)
    \/ \E r \in ExactChallenges : PublishExact(r)
    \/ \E c \in PhoneChallenges \cup ExactChallenges : Submit(c)

MailSpec == MailInit /\ [][MailNext]_mailVars

-----------------------------------------------------------------------------

\* However late and in whatever order the posts are handled, what is served
\* belongs together: a signature and a receipt are those of the challenge on
\* display, the receipt is one the holder sealed, and after an invalidation
\* nothing is served (companion.py do_GET and do_POST under phone_lock).
ServedBelongs ==
    /\ phone.signature \in {Blank, phone.challenge}
    /\ phone.verification \in {Blank, phone.challenge}
    /\ ServedVerification # Blank => ServedVerification \in sealed
    /\ phone.invalidated => ServedChallenge = Blank /\ ServedSignature = Blank
                                                    /\ ServedVerification = Blank
    /\ ServedExactSignature \in {Blank, ServedExact} /\ exact.signature \in {Blank, exact.challenge}

=============================================================================
