------------------------------- MODULE MCMemory -------------------------------
(* The files older versions left behind, and the calls on one of them.      *)
EXTENDS Memory

MCSessions == {"default", "r", "s1", "s2"}
MCRoles == {"default", "r"}
MCKeys == {"k1", "k2"}

User(id, sid, key) == [id |-> id, sid |-> sid, key |-> key, kind |-> "user_fact"]
Agent(id, sid, key) == [id |-> id, sid |-> sid, key |-> key, kind |-> "agent_fact"]
Row(id, sid) == [id |-> id, sid |-> sid]
Score(sid, value) == [sid |-> sid, value |-> value]

(* Before versions: one constraint and one key for all sessions.            *)
Version0 == [Fresh EXCEPT !.uniq = "key", !.pk = "dimension",
                          !.user_facts = {User(1, "default", "k1"), Agent(2, "default", "k2")},
                          !.reflections = {Row(1, "default")},
                          !.metrics = {Score("default", 1)},
                          !.turns = {Row(1, "default")}]

(* The same from before sessions.                                           *)
NoSessions == [Version0 EXCEPT !.session_column = FALSE]

(* Both fact tables in use, two sessions of one role.                       *)
Version3 == [Fresh EXCEPT !.ver = 3,
                          !.user_facts = {User(1, "s1", "k1"), User(2, "s1", "k2"),
                                          User(3, "s2", "k1")},
                          !.facts_v2 = {User(4, "s1", "k2")},
                          !.reflections = {Row(1, "s1"), Row(2, "s2")}, !.insights_v2 = {},
                          !.metrics = {Score("s1", 2), Score("s2", 3)},
                          !.turns = {Row(1, "s1"), Row(2, "s1"), Row(3, "s2")},
                          !.roles = {<<"s1", "r">>, <<"s2", "r">>}]

(* A role with its own session and one of another name.                     *)
Beside == [Version3 EXCEPT !.user_facts = {User(1, "s1", "k1"), User(2, "r", "k2")},
                           !.facts_v2 = {},
                           !.reflections = {Row(1, "r")},
                           !.metrics = {Score("s1", 2), Score("r", 3)},
                           !.turns = {Row(1, "s1"), Row(2, "r")},
                           !.roles = {<<"s1", "r">>, <<"r", "r">>}]

Colliding == [Beside EXCEPT !.user_facts = {User(1, "s1", "k1"), User(2, "r", "k1")}]

(* Two characters who were told of the same thing, one of them twice.       *)
Shared == [Version3 EXCEPT !.user_facts = {User(1, "r", "k1"), User(2, "default", "k1")},
                           !.facts_v2 = {User(3, "r", "k1")},
                           !.reflections = {Row(1, "r")},
                           !.metrics = {Score("r", 2)},
                           !.turns = {Row(1, "r"), Row(2, "default")},
                           !.roles = {<<"r", "r">>, <<"default", "default">>}]

(* The session of one character bears the name of the other.                *)
Crossed == [Shared EXCEPT !.user_facts = {User(1, "s1", "k1"), User(2, "default", "k1")},
                          !.facts_v2 = {User(3, "s2", "k1")},
                          !.turns = {Row(1, "s2"), Row(2, "s2"), Row(3, "default"), Row(4, "s1")},
                          !.roles = {<<"default", "r">>, <<"s1", "default">>, <<"s2", "r">>}]

Version4 == [Version3 EXCEPT !.ver = 4, !.user_facts = Absent,
                             !.user_facts_archive = {User(1, "r", "k1"), Agent(2, "r", "k2")},
                             !.facts_v2 = {User(1, "r", "k1")},
                             !.reflections = {Row(1, "r")},
                             !.metrics = {Score("r", 2)}, !.turns = {Row(1, "r")},
                             !.roles = {<<"r", "r">>}]

Version5 == [Version4 EXCEPT !.ver = 5, !.reflections = Absent,
                             !.reflections_archive = {Row(1, "r")},
                             !.insights_v2 = {[id |-> 1, sid |-> "r", copy |-> 0]}]

Version6 == [Version5 EXCEPT !.ver = 6, !.user_facts_archive = Absent,
                             !.reflections_archive = Absent]

MCLegacies == {Fresh, Version0, NoSessions, Version3, Beside, Colliding, Shared, Crossed,
               Version4, Version5, Version6}

MCFollowed == {Version6}
=============================================================================
