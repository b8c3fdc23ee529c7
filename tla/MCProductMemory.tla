-------------------------- MODULE MCProductMemory --------------------------
(* Small instances of ProductMemory for TLC. *)
EXTENDS ProductMemory, TLC

CONSTANTS c1, c2, k1, k2, k3, k4

Offer(action, text, fields, yes, by) ==
    [NoRequest EXCEPT !.action = action, !.text = text, !.fields = fields, !.yes = yes, !.by = by]
User(action, yes) == Offer(action, NoText, NoFields, yes, "user")
Keep(action, text, by) == Offer(action, text, NoFields, by = "user", by)
Grant(automatic) == Offer("grant_share", NoText, "all", automatic, "user")

\* The person, in the settings of the Assistant and of the native account.
Person ==
    {Keep("save", "private", "user"), Keep("propose", "plain", "user"),
     Keep("correct", "plain", "user"), User("undo", FALSE), User("forget", FALSE),
     User("confirm", TRUE), User("disclose", TRUE),
     User("settings", FALSE), User("automatic_sharing", TRUE),
     Grant(FALSE), User("revoke_share", FALSE)}

\* A second page, and the tools and the Run of a conversation.
Other ==
    {Keep("save", "private", "tool"), Offer("settings", NoText, NoFields, TRUE, "tool"),
     Keep("correct", "plain", "user"), Grant(TRUE), User("disclose_shared", FALSE)}

Everyone == [c \in Clients |-> IF c = c1 THEN Person ELSE Other]

Symmetry == Permutations(Keys)
=============================================================================
