------------------------------- MODULE Publisher -------------------------------
(***************************************************************************)
(* PublishAdvertisement over either transport, and the advertisement the   *)
(* broker keeps for this cluster. The broker records in its Reserved field *)
(* what it has locked; the agent reads that field and sends it back with   *)
(* its own figures. Over HTTP this is a GET and a POST, each with retries; *)
(* over the legacy transport a Get and a Create or Update that carries the *)
(* resourceVersion.                                                        *)
(***************************************************************************)
EXTENDS Naturals

CONSTANTS
    Contents,     \* what an advertisement may say of the cluster
    NoContent,    \* no advertisement
    Amounts,      \* values of the Reserved field
    NoReserved,   \* Reserved is nil or was not read
    maxRetries,   \* retries of a request after its first attempt
    Flags         \* command lines: --broker-transport, and which of its options are given

ASSUME PublisherAssumption ==
    /\ maxRetries \in Nat
    /\ NoContent \notin Contents
    /\ NoReserved \notin Amounts
    /\ \A f \in Flags :
         /\ f.url \in BOOLEAN
         /\ {f.kubeconfig, f.cert} \subseteq {"none", "unusable", "usable"}

VARIABLES
    transport,   \* what main chose to reach the broker with
    ad,          \* the broker's copy
    pub          \* the publication under way

pubVars == <<transport, ad, pub>>

Transport == {"none", "http", "kubernetes"}

Advertisement == [exists : BOOLEAN, content : Contents \cup {NoContent},
                  reserved : Amounts \cup {NoReserved}]

\* body says whether the POST's body can still be read; current whether the
\* broker's copy was read and has the same resourceVersion ever since.
Publication == [pc : {"idle", "get", "post", "read", "create", "update"}, attempt : Nat,
                body : {"unread", "read"}, content : Contents \cup {NoContent},
                reserved : Amounts \cup {NoReserved}, current : BOOLEAN]

NotPublishing == [pc |-> "idle", attempt |-> 0, body |-> "unread", content |-> NoContent,
                  reserved |-> NoReserved, current |-> FALSE]

PubTypeOK ==
    /\ transport \in Transport
    /\ ad \in Advertisement
    /\ pub \in Publication
    /\ pub.attempt <= maxRetries

\* It needs a key pair and a CA certificate it can load.
NewHTTPCommunicator(f) == IF f.cert = "usable" THEN "http" ELSE "exit"

NewCommunicator(f) == IF f.url /\ f.cert # "none" THEN NewHTTPCommunicator(f) ELSE "exit"

\* Without a kubeconfig the client is there but not enabled.
NewBrokerClient(f) ==
    CASE f.kubeconfig = "none"     -> "none"
      [] f.kubeconfig = "usable"   -> "kubernetes"
      [] f.kubeconfig = "unusable" -> "exit"

\* main's choice; a kubeconfig alone stands for the kubernetes transport.
Chosen(f) ==
    LET t == IF f.kubeconfig # "none" /\ f.transport = "" THEN "kubernetes" ELSE f.transport
    IN CASE t = ""           -> "none"
         [] t = "http"       -> NewCommunicator(f)
         [] t = "kubernetes" -> NewBrokerClient(f)
         [] OTHER            -> "exit"

PubInit ==
    /\ transport \in {Chosen(f) : f \in Flags} \ {"exit"}
    /\ ad = [exists |-> FALSE, content |-> NoContent, reserved |-> NoReserved]
    /\ pub = NotPublishing

-----------------------------------------------------------------------------
(* The broker.                                                             *)

\* It locks or frees resources of this cluster for a requester.
BrokerLocks ==
    /\ ad.exists
    /\ \E a \in Amounts \ {ad.reserved} : ad' = [ad EXCEPT !.reserved = a]
    /\ pub' = [pub EXCEPT !.current = FALSE]
    /\ UNCHANGED transport

\* It stores an advertisement as it was sent.
Store == ad' = [exists |-> TRUE, content |-> pub.content, reserved |-> pub.reserved]

Finished == pub' = NotPublishing

-----------------------------------------------------------------------------
(* HTTP. doWithRetry makes maxRetries + 1 attempts; an error or a 5xx      *)
(* answer leads to the next one, after a delay, any other answer ends it.  *)

\* The advertisement as ToAdvertisementDTO converts it: Reserved is nil.
HttpPublish(c) ==
    /\ transport = "http" /\ pub.pc = "idle"
    /\ pub' = [NotPublishing EXCEPT !.pc = "get", !.content = c]
    /\ UNCHANGED <<transport, ad>>

\* Mutant: the Reserved field of the answer is not taken over.
GetIgnored ==
    /\ pub.pc = "get" /\ ad.exists
    /\ pub' = [pub EXCEPT !.pc = "post", !.attempt = 0, !.current = TRUE]
    /\ UNCHANGED <<transport, ad>>

\* 200, and the body could be decoded. A Reserved field that is nil is left nil.
GetAnswered ==
    /\ pub.pc = "get" /\ ad.exists
    /\ pub' = [pub EXCEPT !.pc = "post", !.attempt = 0, !.reserved = ad.reserved,
                          !.current = TRUE]
    /\ UNCHANGED <<transport, ad>>

\* 404, another answer below 500, or a body that cannot be decoded; and the
\* last attempt failed: the advertisement is posted all the same.
GetUseless ==
    /\ pub.pc = "get"
    /\ pub' = [pub EXCEPT !.pc = "post", !.attempt = 0]
    /\ UNCHANGED <<transport, ad>>

\* Mutant: one attempt too many.
RetryOnceMore == pub.attempt <= maxRetries /\ pub' = [pub EXCEPT !.attempt = @ + 1]

Retry == pub.attempt < maxRetries /\ pub' = [pub EXCEPT !.attempt = @ + 1]

\* Mutant: the count of attempts starts over after the last one.
GetRepeated ==
    /\ pub.pc = "get"
    /\ pub' = [pub EXCEPT !.attempt = IF @ < maxRetries THEN @ + 1 ELSE 0]
    /\ UNCHANGED <<transport, ad>>

GetRetried ==
    /\ pub.pc = "get"
    /\ Retry
    /\ UNCHANGED <<transport, ad>>

\* The broker got the POST and stored it, and its answer arrived.
PostAnswered ==
    /\ pub.pc = "post" /\ pub.body = "unread"
    /\ Store
    /\ Finished
    /\ UNCHANGED transport

\* An answer between 300 and 500: the broker refused it.
PostRefused ==
    /\ pub.pc = "post" /\ pub.body = "unread"
    /\ Finished
    /\ UNCHANGED <<transport, ad>>

\* No connection, so that nothing is read of the body; or the body was read
\* before and the request would be shorter than its Content-Length.
PostUnsent ==
    /\ pub.pc = "post"
    /\ Retry \/ (pub.attempt = maxRetries /\ Finished)
    /\ UNCHANGED <<transport, ad>>

\* The body went out but a 5xx or no answer came back; the broker may have
\* stored it. The clone for the next attempt shares the reader, now at its end.
PostFailed ==
    /\ pub.pc = "post" /\ pub.body = "unread"
    /\ UNCHANGED ad \/ Store
    /\ \/ pub.attempt < maxRetries
          /\ pub' = [pub EXCEPT !.attempt = @ + 1, !.body = "read", !.current = @ /\ ad' = ad]
       \/ pub.attempt = maxRetries /\ Finished
    /\ UNCHANGED transport

\* On a connection it has used before, net/http does not give such a request
\* up: it takes the body anew from GetBody, which the clone shares too.
BodyRewound ==
    /\ pub.pc = "post" /\ pub.body = "read"
    /\ pub' = [pub EXCEPT !.body = "unread"]
    /\ UNCHANGED <<transport, ad>>

\* ctx is done while the code waits for the next attempt. After a GET the POST
\* is still tried, with the same context, and fails.
Cancelled ==
    /\ pub.pc \in {"get", "post"} /\ pub.attempt > 0
    /\ Finished
    /\ UNCHANGED <<transport, ad>>

HttpStep == GetAnswered \/ GetUseless \/ GetRetried \/ PostAnswered \/ PostRefused \/ PostUnsent
            \/ PostFailed \/ BodyRewound \/ Cancelled

-----------------------------------------------------------------------------
(* The legacy BrokerClient: no retries; a failed Get is taken for a missing*)
(* object.                                                                 *)

KubePublish(c) ==
    /\ transport = "kubernetes" /\ pub.pc = "idle"
    /\ pub' = [NotPublishing EXCEPT !.pc = "read", !.content = c]
    /\ UNCHANGED <<transport, ad>>

ReadFound ==
    /\ pub.pc = "read" /\ ad.exists
    /\ pub' = [pub EXCEPT !.pc = "update", !.reserved = ad.reserved, !.current = TRUE]
    /\ UNCHANGED <<transport, ad>>

ReadFailed ==
    /\ pub.pc = "read"
    /\ pub' = [pub EXCEPT !.pc = "create"]
    /\ UNCHANGED <<transport, ad>>

CreateAccepted ==
    /\ pub.pc = "create" /\ ~ad.exists
    /\ Store
    /\ Finished
    /\ UNCHANGED transport

\* Mutant: the update carries no resourceVersion.
UpdateUnconditional ==
    /\ pub.pc = "update" /\ ad.exists
    /\ Store
    /\ Finished
    /\ UNCHANGED transport

UpdateAccepted ==
    /\ pub.pc = "update" /\ ad.exists /\ pub.current
    /\ Store
    /\ Finished
    /\ UNCHANGED transport

\* AlreadyExists, Conflict, or a failure on the way (a write that was accepted
\* but whose answer is lost differs from an accepted one in the log only).
WriteRejected ==
    /\ pub.pc \in {"create", "update"}
    /\ Finished
    /\ UNCHANGED <<transport, ad>>

KubeStep == ReadFound \/ ReadFailed \/ CreateAccepted \/ UpdateAccepted \/ WriteRejected

-----------------------------------------------------------------------------

PublishAdvertisement(c) == HttpPublish(c) \/ KubePublish(c)
PublishStep == HttpStep \/ KubeStep

\* The agent has just overwritten the broker's Reserved field.
ReservedChanged == ad.exists /\ ad'.reserved # ad.reserved

=============================================================================
