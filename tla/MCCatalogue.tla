----------------------------- MODULE MCCatalogue -----------------------------
(* A small catalogue: two colleges, departments, courses, teachers and       *)
(* offerings, one student with one enrollment, one schedule, and the         *)
(* requests made of it.                                                      *)
EXTENDS CatalogueSchema, TLC

CONSTANTS k1, k2, k3

MCInitial ==
  [college    |-> <<[key |-> k1], [key |-> k2]>>,
   department |-> <<[college |-> 1, key |-> k1], [college |-> 1, key |-> k2]>>,
   course     |-> <<[department |-> 1, key |-> k1], [department |-> 2, key |-> k1]>>,
   teacher    |-> <<[department |-> 1, key |-> k1], [department |-> 1, key |-> k1]>>,
   student    |-> <<[department |-> 1, key |-> k1, version |-> 1]>>,
   offering   |-> <<[course |-> 1, teacher |-> 1, key |-> k1],
                    [course |-> 1, teacher |-> 1, key |-> k2]>>,
   schedule   |-> <<[offering |-> 1, key |-> k1, start |-> 1, end |-> 4]>>,
   enrollment |-> <<[student |-> 1, offering |-> 1, key |-> k3, grade |-> 80,
                     active |-> FALSE, withdrawn |-> FALSE]>>]

\* The body of a new enrollment: the flags have their defaults.
Enroll(s, o, k, grade) ==
  [student |-> s, offering |-> o, key |-> k, grade |-> grade,
   active |-> TRUE, withdrawn |-> FALSE]

MCNew ==
  [college    |-> {[key |-> k2], [key |-> k3]},
   department |-> {[college |-> 2, key |-> k1]},
   course     |-> {[department |-> 2, key |-> k2], [department |-> Null, key |-> k1]},
   teacher    |-> {[department |-> 2, key |-> k1]},
   student    |-> {[department |-> 2, key |-> k2, version |-> 1]},
   offering   |-> {[course |-> 2, teacher |-> 2, key |-> k1]},
   schedule   |-> {[offering |-> 1, key |-> k1, start |-> 1, end |-> 2]},
   enrollment |-> {Enroll(1, 2, k1, 62), Enroll(1, 2, k2, Null)}]

MCChanges ==
  [college    |-> {[key |-> k2]},
   department |-> {[college |-> 2]},
   course     |-> {[department |-> 1], [department |-> 2, key |-> k2]},
   teacher    |-> {[department |-> 2]},
   student    |-> {[department |-> 2]},
   offering   |-> {[course |-> 2]},
   schedule   |-> {[start |-> 3], [end |-> 2]},
   enrollment |-> {[offering |-> 2], [grade |-> 85],
                   [active |-> TRUE], [withdrawn |-> TRUE],
                   [active |-> TRUE, withdrawn |-> FALSE]}]

RequestsAlike == Permutations(Requests)
=============================================================================
