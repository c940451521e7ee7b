-------------------------- MODULE MCStateMigration --------------------------
\* Three states of the files and four of the database, one or two rows a domain.
EXTENDS StateMigration, TLC

Row(id, key, refs, content) == [id |-> id, key |-> key, refs |-> refs, content |-> content]

\* The domains that rows does not name are empty.
Full(rows) == rows @@ [d \in Domains |-> {}]

User(name, content) == Row(name, name, {}, content)
Config(id, hash) == Row(id, hash, {}, "config")
Pointer(id) == Row("type", "type", {<<"label_configs", id>>}, "active")
Task(state, sub) == Row("t1", "t1", {<<"qc_submissions", sub>>}, state)
Submission(id) == Row(id, id, {}, "edits")
Baseline(id) == Row(id, "baseline", {}, "payload")
Confirmed(id, sub) == Row(id, sub, {<<"qc_submissions", sub>>}, "payload")
Item(id, snap) == Row(id, snap, {<<"annotation_snapshots", snap>>}, "item")

\* A batch with one confirmed sample.
Files ==
    Full([users |-> {User("admin", "as created"), User("ann", "as created")},
          label_configs |-> {Config("c1", "h1")},
          label_config_active_pointers |-> {Pointer("c1")},
          qc_tasks |-> {Task("completed", "sub1")},
          annotation_snapshots |-> {Baseline("s0"), Confirmed("s1", "sub1")},
          qc_submissions |-> {Submission("sub1")},
          sample_pool_items |-> {Item("p1", "s1")}])

\* An old store with two records of one content; one whose pointer lost its version.
MCSources ==
    {Files,
     [Files EXCEPT !.label_configs = @ \cup {Config("c2", "h1")}],
     [Files EXCEPT !.label_config_active_pointers = {Pointer("c2")}]}

\* Empty; the backend was started on it and given the same label configuration; an
\* import was stopped before the pool and the item added by hand; the sample was
\* submitted and confirmed here as well, from a baseline of its own.
MCTargets ==
    {Full(<<>>),
     Full([users |-> {User("admin", "as bootstrapped")},
           label_configs |-> {Config("d1", "h1")},
           label_config_active_pointers |-> {Pointer("d1")}]),
     [Files EXCEPT !.sample_pool_items = {Item("q1", "s1")}],
     [Files EXCEPT !.qc_tasks = {Task("confirmed here", "sub2")},
                   !.qc_submissions = {Submission("sub2")},
                   !.annotation_snapshots = {Baseline("b0"), Confirmed("b1", "sub2")},
                   !.sample_pool_items = {Item("q1", "b1")}]}

\* They are what the theorems suppose.
ASSUME MCAssumption == RivalsShow /\ NamesResolve
=============================================================================
