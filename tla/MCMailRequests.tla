---------------------------- MODULE MCMailRequests ----------------------------
EXTENDS MailRequests

CONSTANTS home, work, a, b, c1, c2

Address(spec, name) == [spec |-> spec, name |-> name, valid |-> TRUE]
Garbled == [spec |-> "garbled", name |-> "garbled", valid |-> FALSE]

MCMail == (home :> {a, b}) @@ (work :> {a})
MCCap == (home :> 2) @@ (work :> 1)
MCSize == (a :> 2) @@ (b :> 2)

MCSelf == (home :> "me") @@ (work :> "bob")

(* At home the first message was sent to a crowd that names people twice, and both
   senders.  At work its id is that of a letter from somebody else, which has a
   garbled Cc and is too large to attach.  The second message is only in batches. *)
AtHome == [from |-> <<Address("ann", "Ann")>>,
           replyTo |-> <<Address("list", ""), Address("list", "The list"), Address("me", "")>>,
           to |-> <<Address("me", "Me"), Address("bob", "Bob"), Address("list", "")>>,
           cc |-> <<Address("bob", ""), Address("ann", "Ann")>>,
           oversized |-> FALSE]
AtWork == [from |-> <<Address("carol", "Carol"), Address("me", "")>>, replyTo |-> <<>>,
           to |-> <<Address("bob", "Bob")>>, cc |-> <<Garbled>>, oversized |-> TRUE]
MCHeader == (home :> [id \in {a, b} |-> AtHome]) @@ (work :> [id \in {a, b} |-> AtWork])

MCOthers == {<<>>, <<Address("bob", "Bob"), Address("bob", "")>>, <<Garbled>>}
CallersSymmetry == Permutations({c1, c2})

MCBatches == {<<a>>, <<a, b>>, <<a, a>>}
=============================================================================
