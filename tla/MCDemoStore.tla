---------------------------- MODULE MCDemoStore ----------------------------
(* Groups of tables that refer to each other, and the number of changes    *)
(* made to each; the seeded store with one change.                         *)
EXTENDS DemoStore

Group(tables, calls) == [tables |-> tables, seeded |-> FALSE, calls |-> calls]

MCScopes ==
    {Group({"users", "invites"}, 4), Group({"users", "tokens", "audit"}, 3),
     Group({"users", "companies", "contacts"}, 3), Group({"companies", "contacts", "deals"}, 3),
     Group({"deals", "todos"}, 3), Group({"contacts", "calls"}, 3), Group({"contacts", "appointments"}, 3),
     Group({"users", "notes", "notifications"}, 3), Group({"articles", "jobs", "templates"}, 3),
     Group({"workflows", "runs"}, 3), Group({"accounts", "messages", "attachments"}, 4),
     [tables |-> {"companies", "contacts"}, seeded |-> TRUE, calls |-> 1],
     [tables |-> {"deals", "todos"}, seeded |-> TRUE, calls |-> 1],
     [tables |-> {"workflows", "runs", "articles", "notes"}, seeded |-> TRUE, calls |-> 1]}
=============================================================================
