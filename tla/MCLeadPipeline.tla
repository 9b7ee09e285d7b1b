--------------------------- MODULE MCLeadPipeline ---------------------------
(* A hiring drive, whose text spells a role otherwise than the request;     *)
(* among the inputs every set of signals, with and without each of the      *)
(* facts that a score or a confidence weighs.                               *)
(* Aggregates stand on both sides of each threshold of openings, technologies*)
(* and recent postings.                                                      *)
EXTENDS LeadPipeline, TLC

MCPositions == (1 .. 2) \X {"Title", "other"}

Lead(signals, keywords, openings, techs, roles, big, contact, source, dated) ==
    [signals |-> signals, keywords |-> keywords, counted |-> Unknown,
     named |-> {}, titled |-> {}, says |-> IF big THEN {"public"} ELSE {},
     techs |-> techs, roles |-> roles, openings |-> openings,
     large |-> big, enterprise |-> big, normed |-> FALSE, valued |-> FALSE,
     pocName |-> contact, pocTitle |-> contact, pocLink |-> contact,
     source |-> source, dated |-> dated, days |-> 3]

MCInputs ==
    LET some(signals, openings, techs, roles, contact, informed) ==
            Lead(signals, Cardinality(signals), openings, techs, roles, contact, contact,
                 IF informed THEN 8 ELSE Unknown, informed)
    IN {some(signals, openings, techs, roles, contact, informed) :
          signals \in SUBSET SignalTypes, openings \in {0, 20},
          techs \in {{}, {"Java", "AWS", "Python", "Spring Boot"}},
          roles \in {{}, MCPositions}, contact \in BOOLEAN, informed \in BOOLEAN}

MCPostings ==
    {[key |-> key, source |-> source, sources |-> {source}, id |-> id, recent |-> recent,
      techs |-> techs, cities |-> {key}, says |-> {}, senior |-> recent] :
        key \in {"k", "l"}, source \in {"x", "y"}, id \in {1, 2}, recent \in BOOLEAN,
        techs \in {{}, {"AWS", "ML"}}}

MCAggregates ==
    LET some(n, recent, techs, share, cities, sources, says) ==
            [openings |-> n, recent |-> recent, techs |-> techs,
             cloud |-> IF "cloud" \in share THEN n ELSE 0, ai |-> IF "ai" \in share THEN n ELSE 0,
             cities |-> cities, says |-> says, senior |-> sources = 2, sources |-> sources]
        all ==
         {some(n, recent, techs, share, cities, sources, says) :
          n \in {1, 4, 5, 9, 10, 15, 24, 25, 49, 50}, recent \in {0, 1, 4, 5, 7, 9, 11, 24, 50},
          techs \in {0, 2, 3, 5}, share \in SUBSET {"cloud", "ai"}, cities \in {0, 2},
          sources \in {1, 2}, says \in SUBSET {"vendor", "transformation"}}
    IN {agg \in all : agg.recent <= agg.openings /\ (agg.techs = 0 => agg.cloud + agg.ai = 0)}

MCOffers ==
    {[Lead({"HIRING", "EXPANSION"}, 3, Unknown, {"Java"}, {<<1, "Title">>, <<2, "other">>}, TRUE, FALSE, 4, TRUE) EXCEPT
        !.counted = 25, !.named = {"Spring", "Spring Boot"}, !.titled = {<<2, "Title">>}]}

MCSkills == {"Java", "AWS", "Python", "Spring", "Spring Boot"}

MCAggregate == Lead({"HIRING"}, 1, 9, {"AWS"}, {<<1, "other">>}, FALSE, FALSE, 2, TRUE)

Interchangeable == Permutations(Sessions)
=============================================================================
