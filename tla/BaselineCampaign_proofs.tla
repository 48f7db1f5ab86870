----------------------- MODULE BaselineCampaign_proofs -----------------------
(***************************************************************************)
(* A row announced as DONE is durable, for every plan, number of workers,  *)
(* of campaigns in one directory and of matrix files that vanish.          *)
(*                                                                         *)
(* The inductive invariant cuts the rows a worker holds in memory into     *)
(* those in its shard file and those in the writer's buffer, so that what  *)
(* is flushed next lands right behind what is there.  Rows carry the       *)
(* number of the campaign that wrote them: between the moment the shard    *)
(* file is emptied and the moment the log is, the log still has rows, and  *)
(* they are of an earlier campaign.                                        *)
(***************************************************************************)
EXTENDS BaselineCampaign, TLAPS

IsSequence(s) == \E S : s \in Seq(S)

\* From the moment the shard file is emptied.
Opened == {"csv", "idle", "child", "row", "returned", "raised"}

File(g) == shard[Gpu(g)]

\* What one worker's rows, buffer, file and log have to do with each other.
Durable(g) ==
  /\ IsSequence(File(g).rows)
  /\ pc[g] \in Opened => File(g).run = run /\ rows[g] = File(g).rows \o buffer[g]
  /\ main = "dealing" => pc[g] = "new"
  /\ main = "dealing" \/ pc[g] \in {"submitted", "csv"} =>
       rows[g] = <<>> /\ buffer[g] = <<>> /\ \A row \in logged[g] : row.run < run
  /\ pc[g] \in {"row", "returned", "raised"} => buffer[g] = <<>>
  /\ pc[g] = "row" => rows[g] # <<>>
  /\ \A i \in DOMAIN rows[g] : rows[g][i].run = run
  /\ \A row \in logged[g] :
       /\ row.run \in Nat /\ row.run <= run
       /\ row.run = File(g).run => row \in Range(File(g).rows)

TypeInv ==
  /\ plan \in Plans /\ run \in Nat
  /\ DOMAIN pc = Gpus /\ DOMAIN rows = Gpus /\ DOMAIN buffer = Gpus /\ DOMAIN logged = Gpus
  /\ DOMAIN shard = Names
  /\ \A f \in Names : shard[f] = [run |-> shard[f].run, rows |-> shard[f].rows]
  /\ \A g \in Gpus : IsSequence(rows[g]) /\ IsSequence(buffer[g])

CampaignInv == TypeInv /\ (GpusDistinct => \A g \in Gpus : Durable(g))

-----------------------------------------------------------------------------
(* Sequences, and rows written at an offset. *)

LEMMA EmptyIs == IsSequence(<<>>) /\ Len(<<>>) = 0
<1>1. <<>> \in Seq({})
  OBVIOUS
<1>. QED
  BY <1>1 DEF IsSequence

LEMMA OneIs ==
  ASSUME NEW e
  PROVE  IsSequence(<<e>>)
<1>1. <<e>> \in Seq({e})
  OBVIOUS
<1>. QED
  BY <1>1 DEF IsSequence

LEMMA JoinedIs ==
  ASSUME NEW s, NEW t, IsSequence(s), IsSequence(t)
  PROVE  /\ IsSequence(s \o t)
         /\ Len(s) \in Nat /\ Len(t) \in Nat /\ Len(s \o t) = Len(s) + Len(t)
         /\ DOMAIN s = 1 .. Len(s) /\ DOMAIN t = 1 .. Len(t)
         /\ s \o t = [i \in 1 .. Len(s) + Len(t) |->
                        IF i <= Len(s) THEN s[i] ELSE t[i - Len(s)]]
<1>1. PICK S : s \in Seq(S)
  BY DEF IsSequence
<1>2. PICK T : t \in Seq(T)
  BY DEF IsSequence
<1>3. s \in Seq(S \cup T) /\ t \in Seq(S \cup T)
  BY <1>1, <1>2
<1>4. s \o t \in Seq(S \cup T) /\ Len(s \o t) = Len(s) + Len(t)
      /\ Len(s) \in Nat /\ Len(t) \in Nat
  BY <1>3
<1>5. DOMAIN (s \o t) = 1 .. Len(s) + Len(t)
      /\ \A i \in 1 .. Len(s) + Len(t) : (s \o t)[i] = IF i <= Len(s) THEN s[i] ELSE t[i - Len(s)]
  BY <1>3, <1>4
<1>6. \A W : \A u \in Seq(W) : u = [i \in DOMAIN u |-> u[i]]
  OBVIOUS
<1>. QED
  <2>. DEFINE u == s \o t
  <2>. HIDE DEF u
  <2>1. u = [i \in DOMAIN u |-> u[i]]
    BY <1>4, <1>6 DEF u
  <2>2. u = [i \in 1 .. Len(s) + Len(t) |-> IF i <= Len(s) THEN s[i] ELSE t[i - Len(s)]]
    BY <1>5, <2>1 DEF u
  <2>3. DOMAIN s = 1 .. Len(s) /\ DOMAIN t = 1 .. Len(t)
    BY <1>3
  <2>4. IsSequence(s \o t)
    BY <1>4 DEF IsSequence
  <2>5. s \o t = [i \in 1 .. Len(s) + Len(t) |-> IF i <= Len(s) THEN s[i] ELSE t[i - Len(s)]]
    BY <2>2, Zenon DEF u
  <2>. QED
    BY <1>4, <2>3, <2>4, <2>5, Zenon

LEMMA JoinedElements ==
  ASSUME NEW s, NEW t, IsSequence(s), IsSequence(t)
  PROVE  /\ DOMAIN (s \o t) = 1 .. Len(s) + Len(t)
         /\ \A i \in DOMAIN (s \o t) :
              (i \in DOMAIN s /\ (s \o t)[i] = s[i])
                \/ (i - Len(s) \in DOMAIN t /\ (s \o t)[i] = t[i - Len(s)])
<1>. DEFINE u == s \o t
<1>1. u = [i \in 1 .. Len(s) + Len(t) |-> IF i <= Len(s) THEN s[i] ELSE t[i - Len(s)]]
      /\ Len(s) \in Nat /\ Len(t) \in Nat /\ DOMAIN s = 1 .. Len(s) /\ DOMAIN t = 1 .. Len(t)
  BY JoinedIs
<1>. HIDE DEF u
<1>2. DOMAIN u = 1 .. Len(s) + Len(t)
  BY <1>1
<1>3. ASSUME NEW i \in 1 .. Len(s) + Len(t)
      PROVE  (i \in DOMAIN s /\ u[i] = s[i]) \/ (i - Len(s) \in DOMAIN t /\ u[i] = t[i - Len(s)])
  BY <1>1
<1>. QED
  BY <1>2, <1>3 DEF u

LEMMA PrefixStays ==
  ASSUME NEW s, NEW t, IsSequence(s), IsSequence(t)
  PROVE  Range(s) \subseteq Range(s \o t)
<1>. DEFINE u == s \o t
<1>1. u = [i \in 1 .. Len(s) + Len(t) |-> IF i <= Len(s) THEN s[i] ELSE t[i - Len(s)]]
      /\ Len(s) \in Nat /\ Len(t) \in Nat /\ DOMAIN s = 1 .. Len(s)
  BY JoinedIs
<1>. HIDE DEF u
<1>2. ASSUME NEW i \in DOMAIN s PROVE i \in DOMAIN u /\ u[i] = s[i]
  BY <1>1
<1>3. Range(s) \subseteq Range(u)
  BY <1>2 DEF Range
<1>. QED
  BY <1>3 DEF u

LEMMA JoinedEmpty ==
  ASSUME NEW s, IsSequence(s)
  PROVE  s \o <<>> = s /\ <<>> \o s = s
<1>1. PICK S : s \in Seq(S)
  BY DEF IsSequence
<1>. QED
  BY <1>1

Join(s, t) == s \o t

LEMMA JoinedTwice ==
  ASSUME NEW s, NEW t, NEW u, IsSequence(s), IsSequence(t), IsSequence(u)
  PROVE  Join(Join(s, t), u) = Join(s, Join(t, u))
<1>1. PICK S : s \in Seq(S)
  BY DEF IsSequence
<1>2. PICK T : t \in Seq(T)
  BY DEF IsSequence
<1>3. PICK U : u \in Seq(U)
  BY DEF IsSequence
<1>. DEFINE W == S \cup T \cup U
<1>4. s \in Seq(W) /\ t \in Seq(W) /\ u \in Seq(W)
  BY <1>1, <1>2, <1>3
<1>. HIDE DEF W
<1>. QED
  BY <1>4 DEF Join

LEMMA AppendedIs ==
  ASSUME NEW s, NEW e, IsSequence(s)
  PROVE  Append(s, e) = s \o <<e>>
<1>1. PICK S : s \in Seq(S)
  BY DEF IsSequence
<1>2. s \in Seq(S \cup {e}) /\ e \in S \cup {e}
  BY <1>1
<1>. QED
  BY <1>2

\* Rows written where the file ends follow what is there.
LEMMA WrittenBehind ==
  ASSUME NEW content, NEW new, IsSequence(content), IsSequence(new)
  PROVE  WrittenAt(content, Len(content), new) = content \o new
<1>1. /\ Len(content) \in Nat /\ Len(new) \in Nat
      /\ DOMAIN content = 1 .. Len(content)
      /\ content \o new = [i \in 1 .. Len(content) + Len(new) |->
                             IF i <= Len(content) THEN content[i] ELSE new[i - Len(content)]]
  BY JoinedIs
<1>2. CASE new = <<>>
  BY <1>2, JoinedEmpty DEF WrittenAt
<1>3. CASE new # <<>>
  <2>1. Max({Len(content), Len(content) + Len(new)}) = Len(content) + Len(new)
    <3>. DEFINE S == {Len(content), Len(content) + Len(new)}
    <3>1. \A y \in S : Len(content) + Len(new) >= y
      BY <1>1
    <3>2. \A z \in S : (\A y \in S : z >= y) => z = Len(content) + Len(new)
      BY <1>1
    <3>3. Len(content) + Len(new) \in S
      OBVIOUS
    <3>4. (CHOOSE z \in S : \A y \in S : z >= y) = Len(content) + Len(new)
      <4>. HIDE DEF S
      <4>. QED
        BY <3>1, <3>2, <3>3
    <3>. QED
      BY <3>4 DEF Max
  <2>. DEFINE n == Len(content) + Len(new)
              at(i) == IF i \in Len(content) + 1 .. n THEN new[i - Len(content)]
                       ELSE IF i \in DOMAIN content THEN content[i] ELSE Hole
  <2>2. WrittenAt(content, Len(content), new) = [i \in 1 .. n |-> at(i)]
    BY <1>3, <2>1 DEF WrittenAt
  <2>3. \A i \in 1 .. n : at(i) = IF i <= Len(content) THEN content[i] ELSE new[i - Len(content)]
    BY <1>1
  <2>. HIDE DEF at
  <2>. QED
    BY <1>1, <2>2, <2>3
<1>. QED
  BY <1>2, <1>3

-----------------------------------------------------------------------------
(* One worker at a time. *)

LEMMA GpuNamed ==
  ASSUME plan \in Plans
  PROVE  /\ \A g \in Gpus : Gpu(g) \in Names
         /\ GpusDistinct => \A g, h \in Gpus : g # h => Gpu(g) # Gpu(h)
         /\ Baselines \in Seq(STRING)
BY CampaignAssumption DEF Gpu, Names, Range, GpusDistinct, IsInjective, Baselines

\* What a flush does to the file when the GPU is the worker's own.
LEMMA FlushIs ==
  ASSUME TypeInv, NEW g \in Gpus, Durable(g), pc[g] \in Opened, NEW new, IsSequence(new)
  PROVE  Flushed(g, new) = [shard EXCEPT ![Gpu(g)] = [run |-> run, rows |-> rows[g] \o new]]
<1>. DEFINE content == File(g).rows
<1>1. /\ IsSequence(content) /\ IsSequence(buffer[g]) /\ IsSequence(rows[g])
      /\ rows[g] = content \o buffer[g] /\ File(g).run = run
  BY DEF TypeInv, Durable
<1>. HIDE DEF content
<1>2. Len(rows[g]) = Len(content) + Len(buffer[g]) /\ Len(content) \in Nat /\ Len(buffer[g]) \in Nat
  BY <1>1, JoinedIs
<1>3. Len(rows[g]) - Len(buffer[g]) = Len(content)
  BY <1>2
<1>4. IsSequence(buffer[g] \o new)
  BY <1>1, JoinedIs
<1>5. WrittenAt(content, Len(content), buffer[g] \o new) = content \o (buffer[g] \o new)
  BY <1>1, <1>4, WrittenBehind
<1>6. content \o (buffer[g] \o new) = rows[g] \o new
  <2>0. IsSequence(content) /\ IsSequence(buffer[g]) /\ IsSequence(new)
    BY <1>1
  <2>1. Join(Join(content, buffer[g]), new) = Join(content, Join(buffer[g], new))
    BY <2>0, JoinedTwice
  <2>2. Join(content, buffer[g]) = rows[g]
    BY <1>1 DEF Join
  <2>. QED
    BY <2>1, <2>2, Zenon DEF Join
<1>. DEFINE written == WrittenAt(content, Len(rows[g]) - Len(buffer[g]), buffer[g] \o new)
<1>7. written = rows[g] \o new
  BY <1>3, <1>5, <1>6
<1>8. Flushed(g, new) = [shard EXCEPT ![Gpu(g)].rows = written]
  BY DEF Flushed, content, File
<1>9. shard[Gpu(g)] = [run |-> run, rows |-> content]
  BY <1>1, GpuNamed DEF TypeInv, File, content
<1>. HIDE DEF written
<1>10. [shard[Gpu(g)] EXCEPT !.rows = written] = [run |-> run, rows |-> written]
  BY <1>9
<1>11. [shard EXCEPT ![Gpu(g)].rows = written]
         = [shard EXCEPT ![Gpu(g)] = [shard[Gpu(g)] EXCEPT !.rows = written]]
  OBVIOUS
<1>. QED
  BY <1>7, <1>8, <1>10, <1>11

\* Whoever writes the file, it stays a file, and the others' files are left.
LEMMA FlushKeeps ==
  ASSUME TypeInv, NEW g \in Gpus, NEW new
  PROVE  /\ DOMAIN Flushed(g, new) = Names
         /\ \A f \in Names : /\ Flushed(g, new)[f] = [run |-> Flushed(g, new)[f].run,
                                                      rows |-> Flushed(g, new)[f].rows]
                             /\ f # Gpu(g) => Flushed(g, new)[f] = shard[f]
<1>. DEFINE written == WrittenAt(shard[Gpu(g)].rows, Len(rows[g]) - Len(buffer[g]), buffer[g] \o new)
            after == [shard[Gpu(g)] EXCEPT !.rows = written]
<1>1. Flushed(g, new) = [shard EXCEPT ![Gpu(g)] = after]
  BY DEF Flushed
<1>2. Gpu(g) \in Names
  BY GpuNamed DEF TypeInv
<1>. HIDE DEF written
<1>3. after = [run |-> shard[Gpu(g)].run, rows |-> written]
  BY <1>2 DEF TypeInv
<1>4. after = [run |-> after.run, rows |-> after.rows]
  BY <1>3
<1>. HIDE DEF after
<1>. QED
  BY <1>1, <1>2, <1>4 DEF TypeInv

\* A step of one worker on its own rows and its own file.
LEMMA OneWorker ==
  ASSUME CampaignInv, NEW g \in Gpus, UNCHANGED <<plan, run, main>>, TypeInv',
         \A h \in Gpus \ {g} : /\ pc'[h] = pc[h] /\ rows'[h] = rows[h]
                               /\ buffer'[h] = buffer[h] /\ logged'[h] = logged[h],
         \A f \in Names \ {Gpu(g)} : shard'[f] = shard[f],
         GpusDistinct => Durable(g)'
  PROVE  CampaignInv'
<1>1. Names' = Names /\ (GpusDistinct' <=> GpusDistinct) /\ \A h \in Gpus : Gpu(h)' = Gpu(h)
  BY DEF Names, GpusDistinct, Gpu
<1>2. ASSUME GpusDistinct, NEW h \in Gpus \ {g} PROVE Durable(h)'
  <2>1. Durable(h)
    BY <1>2 DEF CampaignInv
  <2>2. Gpu(h) \in Names \ {Gpu(g)}
    BY <1>2, GpuNamed DEF CampaignInv, TypeInv
  <2>3. File(h)' = File(h)
    BY <1>1, <2>2 DEF File
  <2>. QED
    BY <2>1, <2>3 DEF Durable
<1>. QED
  BY <1>1, <1>2 DEF CampaignInv

\* The file was emptied, the log was not: its rows are of an earlier campaign.
LEMMA OpenCsvInv ==
  ASSUME CampaignInv, NEW g \in Gpus, OpenCsv(g)
  PROVE  CampaignInv'
<1>1. /\ pc[g] = "submitted" /\ pc' = [pc EXCEPT ![g] = "csv"]
      /\ shard' = [shard EXCEPT ![Gpu(g)] = [run |-> run, rows |-> <<>>]]
      /\ UNCHANGED <<plan, run, main, rows, buffer, logged>>
  BY DEF OpenCsv, mainVars, files
<1>2. TypeInv /\ Gpu(g) \in Names /\ DOMAIN shard = Names /\ DOMAIN pc = Gpus /\ Names' = Names
      /\ Gpu(g)' = Gpu(g)
  BY <1>1, GpuNamed DEF CampaignInv, TypeInv, Names, Gpu
<1>3. TypeInv'
  BY <1>1, <1>2 DEF TypeInv
<1>4. ASSUME GpusDistinct PROVE Durable(g)'
  <2>1. /\ rows[g] = <<>> /\ buffer[g] = <<>>
        /\ \A row \in logged[g] : row.run \in Nat /\ row.run < run
        /\ run \in Nat /\ main' # "dealing"
    BY <1>1, <1>2, <1>4 DEF CampaignInv, Durable, TypeInv
  <2>2. pc'[g] = "csv" /\ File(g)' = [run |-> run, rows |-> <<>>]
    BY <1>1, <1>2 DEF File
  <2>3. <<>> \o <<>> = <<>> /\ DOMAIN <<>> = {}
    BY EmptyIs, JoinedEmpty
  <2>. QED
    BY <1>1, <2>1, <2>2, <2>3, EmptyIs DEF Durable
<1>. QED
  BY <1>1, <1>2, <1>3, <1>4, OneWorker

\* Steps that touch neither the file nor a row.
LEMMA QuietInv ==
  ASSUME CampaignInv, NEW g \in Gpus, UNCHANGED <<plan, run, main, rows, buffer, shard>>,
         NEW where \in {"idle", "child"}, pc' = [pc EXCEPT ![g] = where], pc[g] \in {"csv", "idle"},
         logged' = logged \/ logged' = [logged EXCEPT ![g] = {}]
  PROVE  CampaignInv'
<1>1. Names' = Names /\ Gpu(g)' = Gpu(g)
  BY DEF Names, Gpu
<1>2. TypeInv'
  BY <1>1 DEF CampaignInv, TypeInv
<1>3. ASSUME GpusDistinct PROVE Durable(g)'
  <2>1. Durable(g) /\ pc'[g] = where /\ File(g)' = File(g)
    BY <1>1, <1>3 DEF CampaignInv, TypeInv, File
  <2>2. logged'[g] \subseteq logged[g]
    BY DEF CampaignInv, TypeInv
  <2>. QED
    BY <2>1, <2>2 DEF Durable, Opened
<1>. QED
  BY <1>2, <1>3, OneWorker DEF CampaignInv, TypeInv

\* Rows of a matrix that is not there stay in the buffer.
LEMMA MissingInv ==
  ASSUME CampaignInv, NEW g \in Gpus, NEW m, pc[g] = "idle",
         buffer' = [buffer EXCEPT ![g] = @ \o MissingRows(m)],
         rows' = [rows EXCEPT ![g] = @ \o MissingRows(m)],
         UNCHANGED <<plan, run, main, pc, shard, logged>>
  PROVE  CampaignInv'
<1>. DEFINE new == MissingRows(m)
<1>1. IsSequence(new) /\ \A i \in DOMAIN new : new[i].run = run
  <2>1. Baselines \in Seq(STRING)
    BY GpuNamed DEF CampaignInv, TypeInv
  <2>2. DOMAIN Baselines = 1 .. Len(Baselines) /\ Len(Baselines) \in Nat
    BY <2>1
  <2>3. new = [i \in 1 .. Len(Baselines) |-> Row(m, Baselines[i], "missing_matrix")]
    BY <2>2 DEF MissingRows
  <2>. DEFINE S == {Row(m, Baselines[i], "missing_matrix") : i \in 1 .. Len(Baselines)}
  <2>4. new \in [1 .. Len(Baselines) -> S]
    BY <2>3
  <2>5. new \in Seq(S)
    BY <2>2, <2>4
  <2>6. \A i \in DOMAIN new : new[i].run = run
    BY <2>3 DEF Row
  <2>. QED
    BY <2>5, <2>6 DEF IsSequence
<1>. HIDE DEF new
<1>2. /\ buffer' = [buffer EXCEPT ![g] = buffer[g] \o new] /\ rows' = [rows EXCEPT ![g] = rows[g] \o new]
      /\ IsSequence(rows[g]) /\ IsSequence(buffer[g]) /\ DOMAIN rows = Gpus /\ DOMAIN buffer = Gpus
  BY DEF new, CampaignInv, TypeInv
<1>3. rows'[g] = rows[g] \o new /\ buffer'[g] = buffer[g] \o new
  BY <1>2
<1>4. Names' = Names /\ Gpu(g)' = Gpu(g)
  BY DEF Names, Gpu
<1>5. IsSequence(rows'[g]) /\ IsSequence(buffer'[g])
  <2>1. IsSequence(rows[g] \o new) /\ IsSequence(buffer[g] \o new)
    BY <1>1, <1>2, JoinedIs, Zenon
  <2>. QED
    BY <1>3, <2>1, Zenon
<1>6. TypeInv'
  BY <1>2, <1>4, <1>5 DEF CampaignInv, TypeInv
<1>7. ASSUME GpusDistinct PROVE Durable(g)'
  <2>1. Durable(g) /\ File(g)' = File(g)
    BY <1>4, <1>7 DEF CampaignInv, File
  <2>2. rows'[g] = File(g).rows \o buffer'[g]
    <3>1. rows[g] = File(g).rows \o buffer[g] /\ IsSequence(File(g).rows)
      BY <2>1 DEF Durable, Opened
    <3>2. rows[g] \o new = File(g).rows \o (buffer[g] \o new)
      <4>0. IsSequence(File(g).rows) /\ IsSequence(buffer[g]) /\ IsSequence(new)
        BY <1>1, <1>2, <3>1
      <4>1. Join(Join(File(g).rows, buffer[g]), new) = Join(File(g).rows, Join(buffer[g], new))
        BY <4>0, JoinedTwice
      <4>2. Join(File(g).rows, buffer[g]) = rows[g]
        BY <3>1 DEF Join
      <4>. QED
        BY <4>1, <4>2, Zenon DEF Join
    <3>. QED
      BY <1>3, <3>1, <3>2, Zenon
  <2>3. \A i \in DOMAIN rows'[g] : rows'[g][i].run = run
    BY <1>1, <1>2, <1>3, <2>1, JoinedElements DEF Durable
  <2>. QED
    BY <2>1, <2>2, <2>3 DEF Durable, Opened
<1>. QED
  BY <1>2, <1>6, <1>7, OneWorker

\* Leaving the with block flushes what is left.
LEMMA CloseInv ==
  ASSUME CampaignInv, NEW g \in Gpus, NEW how \in {"returned", "raised"}, Close(g, how),
         pc[g] \in {"idle", "child"}, UNCHANGED <<plan, run, main, rows, logged>>
  PROVE  CampaignInv'
<1>1. /\ shard' = Flushed(g, <<>>) /\ buffer' = [buffer EXCEPT ![g] = <<>>]
      /\ pc' = [pc EXCEPT ![g] = how]
  BY DEF Close
<1>2. Names' = Names /\ Gpu(g)' = Gpu(g) /\ TypeInv /\ Gpu(g) \in Names
  BY GpuNamed DEF Names, Gpu, CampaignInv, TypeInv
<1>3. TypeInv'
  BY <1>1, <1>2, FlushKeeps, EmptyIs DEF TypeInv
<1>4. ASSUME GpusDistinct PROVE Durable(g)'
  <2>1. Durable(g) /\ pc[g] \in Opened /\ IsSequence(rows[g]) /\ IsSequence(buffer[g])
    BY <1>2, <1>4 DEF CampaignInv, TypeInv, Opened
  <2>2. rows[g] \o <<>> = rows[g]
    BY <2>1, JoinedEmpty
  <2>3. shard' = [shard EXCEPT ![Gpu(g)] = [run |-> run, rows |-> rows[g]]]
    <3>1. Flushed(g, <<>>) = [shard EXCEPT ![Gpu(g)] = [run |-> run, rows |-> rows[g] \o <<>>]]
      BY <1>2, <2>1, FlushIs, EmptyIs, Zenon
    <3>. QED
      BY <1>1, <2>2, <3>1, Zenon
  <2>4. File(g)' = [run |-> run, rows |-> rows[g]]
    BY <1>2, <2>3 DEF File, TypeInv
  <2>5. Range(File(g).rows) \subseteq Range(rows[g])
    <3>1. rows[g] = File(g).rows \o buffer[g] /\ IsSequence(File(g).rows)
      BY <2>1 DEF Durable
    <3>. QED
      BY <2>1, <3>1, PrefixStays
  <2>6. pc'[g] = how /\ buffer'[g] = <<>>
    BY <1>1, <1>2 DEF TypeInv
  <2>7. File(g).run = run
    BY <2>1 DEF Durable
  <2>8. ASSUME NEW e \in logged[g]
        PROVE  /\ e.run \in Nat /\ e.run <= run
               /\ e.run = run => e \in Range(rows[g])
    BY <2>1, <2>5, <2>7 DEF Durable
  <2>9. /\ File(g)'.run = run /\ File(g)'.rows = rows[g] /\ run' = run
        /\ logged'[g] = logged[g] /\ rows'[g] = rows[g]
        /\ \A i \in DOMAIN rows[g] : rows[g][i].run = run
    BY <2>1, <2>4 DEF Durable
  <2>. QED
    BY <2>1, <2>2, <2>6, <2>8, <2>9 DEF Durable
<1>5. \A f \in Names \ {Gpu(g)} : shard'[f] = shard[f]
  BY <1>1, <1>2, FlushKeeps, EmptyIs
<1>6. \A h \in Gpus \ {g} : /\ pc'[h] = pc[h] /\ rows'[h] = rows[h]
                             /\ buffer'[h] = buffer[h] /\ logged'[h] = logged[h]
  BY <1>1, <1>2 DEF TypeInv
<1>. QED
  BY <1>3, <1>4, <1>5, <1>6, OneWorker

\* The row of a child that ended is flushed before it is announced.
LEMMA RecordInv ==
  ASSUME CampaignInv, NEW g \in Gpus, NEW status, pc[g] = "child", Record(g, status)
  PROVE  CampaignInv'
<1>. DEFINE row == Row(current[g], Head(left[g]), status)
<1>1. /\ shard' = Flushed(g, <<row>>) /\ buffer' = [buffer EXCEPT ![g] = <<>>]
      /\ rows' = [rows EXCEPT ![g] = Append(rows[g], row)]
      /\ pc' = [pc EXCEPT ![g] = "row"]
      /\ UNCHANGED <<plan, run, main, logged>>
  BY DEF Record, WriteAndFlush, mainVars, files
<1>2. Names' = Names /\ Gpu(g)' = Gpu(g) /\ TypeInv /\ Gpu(g) \in Names
  BY <1>1, GpuNamed DEF Names, Gpu, CampaignInv, TypeInv
<1>3. row.run = run
  BY DEF Row
<1>. HIDE DEF row
<1>4. IsSequence(rows[g]) /\ IsSequence(buffer[g]) /\ IsSequence(<<row>>)
  BY <1>2, OneIs DEF TypeInv
<1>5. Append(rows[g], row) = rows[g] \o <<row>> /\ IsSequence(rows[g] \o <<row>>)
  BY <1>4, AppendedIs, JoinedIs
<1>6. TypeInv'
  BY <1>1, <1>2, <1>5, FlushKeeps, EmptyIs DEF TypeInv
<1>7. ASSUME GpusDistinct PROVE Durable(g)'
  <2>. DEFINE now == rows[g] \o <<row>>
  <2>1. Durable(g) /\ pc[g] \in Opened
    BY <1>2, <1>7 DEF CampaignInv, Opened
  <2>2. shard' = [shard EXCEPT ![Gpu(g)] = [run |-> run, rows |-> now]]
    BY <1>1, <1>2, <1>4, <2>1, FlushIs
  <2>3. File(g)' = [run |-> run, rows |-> now]
    BY <1>2, <2>2 DEF File, TypeInv
  <2>4. rows'[g] = now /\ pc'[g] = "row" /\ buffer'[g] = <<>>
    BY <1>1, <1>2, <1>5 DEF TypeInv
  <2>5. Range(File(g).rows) \subseteq Range(now)
    <3>1. rows[g] = File(g).rows \o buffer[g] /\ IsSequence(File(g).rows)
      BY <2>1 DEF Durable
    <3>2. Range(File(g).rows) \subseteq Range(rows[g]) /\ Range(rows[g]) \subseteq Range(now)
      BY <1>4, <3>1, PrefixStays
    <3>. QED
      BY <3>2
  <2>6. IsSequence(now) /\ now # <<>> /\ now \o <<>> = now
    <3>1. Len(now) = Len(rows[g]) + Len(<<row>>) /\ Len(rows[g]) \in Nat /\ Len(<<row>>) = 1
      BY <1>4, JoinedIs
    <3>2. Len(<<>>) = 0
      OBVIOUS
    <3>. HIDE DEF now
    <3>3. now # <<>>
      BY <3>1, <3>2
    <3>. QED
      BY <1>5, <3>3, JoinedEmpty DEF now
  <2>7. \A i \in DOMAIN now : now[i].run = run
    <3>1. \A i \in DOMAIN <<row>> : <<row>>[i].run = run
      BY <1>3
    <3>. QED
      BY <1>4, <2>1, <3>1, JoinedElements DEF Durable
  <2>8. File(g).run = run
    BY <2>1 DEF Durable
  <2>. HIDE DEF now
  <2>9. /\ File(g)'.run = run /\ File(g)'.rows = now /\ run' = run
        /\ logged'[g] = logged[g] /\ rows'[g] = now
    BY <1>1, <2>3, <2>4
  <2>10. ASSUME NEW e \in logged[g]
         PROVE  /\ e.run \in Nat /\ e.run <= run
                /\ e.run = run => e \in Range(now)
    BY <2>1, <2>5, <2>8 DEF Durable
  <2>11. main' # "dealing"
    BY <1>1, <2>1 DEF Durable
  <2>. QED
    BY <2>4, <2>6, <2>7, <2>9, <2>10, <2>11 DEF Durable
<1>8. \A f \in Names \ {Gpu(g)} : shard'[f] = shard[f]
  BY <1>1, <1>2, FlushKeeps
<1>9. \A h \in Gpus \ {g} : /\ pc'[h] = pc[h] /\ rows'[h] = rows[h]
                             /\ buffer'[h] = buffer[h] /\ logged'[h] = logged[h]
  BY <1>1, <1>2 DEF TypeInv
<1>. QED
  BY <1>1, <1>6, <1>7, <1>8, <1>9, OneWorker

\* What is announced is the last row of the file.
LEMMA LogDoneInv ==
  ASSUME CampaignInv, NEW g \in Gpus, LogDone(g)
  PROVE  CampaignInv'
<1>1. /\ pc[g] = "row" /\ pc' = [pc EXCEPT ![g] = "idle"]
      /\ logged' = [logged EXCEPT ![g] = logged[g] \cup {Last(rows[g])}]
      /\ UNCHANGED <<plan, run, main, rows, buffer, shard>>
  BY DEF LogDone, mainVars, files
<1>2. Names' = Names /\ Gpu(g)' = Gpu(g) /\ TypeInv
  BY <1>1 DEF Names, Gpu, CampaignInv
<1>3. TypeInv'
  BY <1>1, <1>2 DEF TypeInv
<1>4. ASSUME GpusDistinct PROVE Durable(g)'
  <2>1. Durable(g) /\ IsSequence(rows[g]) /\ run \in Nat
    BY <1>2, <1>4 DEF CampaignInv, TypeInv
  <2>2. rows[g] # <<>> /\ buffer[g] = <<>> /\ rows[g] = File(g).rows \o <<>>
        /\ IsSequence(File(g).rows)
    BY <1>1, <2>1 DEF Durable, Opened
  <2>3. rows[g] = File(g).rows
    BY <2>2, JoinedEmpty
  <2>4. Len(rows[g]) \in DOMAIN rows[g]
    <3>1. PICK S : rows[g] \in Seq(S)
      BY <2>1 DEF IsSequence
    <3>. QED
      BY <2>2, <3>1
  <2>5. Last(rows[g]).run = run /\ Last(rows[g]) \in Range(File(g).rows)
    BY <2>1, <2>3, <2>4 DEF Last, Range, Durable
  <2>6. pc'[g] = "idle" /\ logged'[g] = logged[g] \cup {Last(rows[g])} /\ File(g)' = File(g)
    BY <1>1, <1>2 DEF TypeInv, File
  <2>7. ASSUME NEW e \in logged'[g]
        PROVE  /\ e.run \in Nat /\ e.run <= run
               /\ e.run = File(g).run => e \in Range(File(g).rows)
    BY <2>1, <2>5, <2>6, <2>7 DEF Durable
  <2>8. /\ IsSequence(File(g).rows) /\ File(g).run = run /\ rows[g] = File(g).rows \o buffer[g]
        /\ \A i \in DOMAIN rows[g] : rows[g][i].run = run
    BY <1>1, <2>1 DEF Durable, Opened
  <2>9. main' # "dealing"
    BY <1>1, <2>1 DEF Durable
  <2>. QED
    BY <1>1, <2>6, <2>7, <2>8, <2>9 DEF Durable
<1>. QED
  BY <1>1, <1>2, <1>3, <1>4, OneWorker DEF TypeInv

-----------------------------------------------------------------------------
(* Every step. *)

\* Main reads the workers' rows and writes files of its own.
LEMMA MainInv ==
  ASSUME CampaignInv, UNCHANGED <<plan, run, pc, rows, buffer, shard, logged>>,
         main' = "dealing" => main = "dealing"
  PROVE  CampaignInv'
BY DEF CampaignInv, TypeInv, Names, GpusDistinct, Durable, File, Gpu

LEMMA WorkerInv ==
  ASSUME CampaignInv, NEW g \in Gpus, Worker(g) \/ ChildEnds(g) \/ OutputUnreadable(g)
  PROVE  CampaignInv'
<1>1. CASE OpenCsv(g)
  BY <1>1, OpenCsvInv
<1>2. CASE OpenLog(g)
  BY <1>2, QuietInv DEF OpenLog, mainVars, files
<1>3. CASE NextMatrix(g)
  <2>1. pc[g] = "idle" /\ UNCHANGED <<plan, run, main, pc, shard, logged>>
    BY <1>3 DEF NextMatrix, mainVars, files
  <2>2. CASE rows' = rows /\ buffer' = buffer
    BY <2>1, <2>2, MainInv
  <2>3. CASE /\ buffer' = [buffer EXCEPT ![g] = @ \o MissingRows(Head(todo[g]))]
             /\ rows' = [rows EXCEPT ![g] = @ \o MissingRows(Head(todo[g]))]
    BY <2>1, <2>3, MissingInv
  <2>. QED
    BY <1>3, <2>2, <2>3 DEF NextMatrix
<1>4. CASE Launch(g)
  BY <1>4, QuietInv DEF Launch, mainVars, files
<1>5. CASE LaunchFails(g)
  BY <1>5, CloseInv DEF LaunchFails, mainVars, files
<1>6. CASE TimesOut(g)
  BY <1>6, RecordInv DEF TimesOut, TimeLimit
<1>7. CASE LogDone(g)
  BY <1>7, LogDoneInv
<1>8. CASE WorkerReturns(g)
  BY <1>8, CloseInv DEF WorkerReturns, mainVars, files
<1>9. CASE ChildEnds(g)
  BY <1>9, RecordInv DEF ChildEnds
<1>10. CASE OutputUnreadable(g)
  BY <1>10, CloseInv DEF OutputUnreadable, mainVars, files
<1>. QED
  BY <1>1, <1>2, <1>3, <1>4, <1>5, <1>6, <1>7, <1>8, <1>9, <1>10 DEF Worker

\* A campaign that starts, and one that is killed, keep nothing but the files:
\* no worker has a row, and the rows of every log are of campaigns before.
LEMMA AfreshInv ==
  ASSUME CampaignInv, UNCHANGED <<plan, shard, logged>>, Afresh,
         run' \in Nat, run' >= run, main' = "dealing" => run' > run
  PROVE  CampaignInv'
<1>0. /\ pc' = [g \in Gpus |-> "new"]
      /\ rows' = [g \in Gpus |-> <<>>] /\ buffer' = [g \in Gpus |-> <<>>]
  BY DEF Afresh
<1>1. Names' = Names /\ (GpusDistinct' <=> GpusDistinct) /\ \A g \in Gpus : File(g)' = File(g)
  BY DEF Names, GpusDistinct, File, Gpu
<1>2. TypeInv'
  BY <1>0, <1>1, EmptyIs DEF CampaignInv, TypeInv
<1>3. ASSUME GpusDistinct, NEW g \in Gpus PROVE Durable(g)'
  <2>1. Durable(g) /\ run \in Nat
    BY <1>3 DEF CampaignInv, TypeInv
  <2>2. /\ rows'[g] = <<>> /\ buffer'[g] = <<>> /\ pc'[g] = "new" /\ logged'[g] = logged[g]
        /\ DOMAIN <<>> = {} /\ File(g)' = File(g)
    BY <1>0, <1>1
  <2>3. \A row \in logged[g] :
          /\ row.run \in Nat /\ row.run <= run' /\ (main' = "dealing" => row.run < run')
          /\ row.run = File(g).run => row \in Range(File(g).rows)
    BY <2>1 DEF Durable
  <2>. QED
    BY <2>1, <2>2, <2>3 DEF Durable, Opened
<1>. QED
  BY <1>1, <1>2, <1>3 DEF CampaignInv

\* While main deals the shards no worker has a row, and none has when it is
\* submitted.
LEMMA SubmitInv ==
  ASSUME CampaignInv, Submit
  PROVE  CampaignInv'
<1>1. /\ main = "dealing" /\ main' = "running" /\ pc' = [g \in Gpus |-> "submitted"]
      /\ UNCHANGED <<plan, run, rows, buffer, shard, logged>>
  BY DEF Submit, AllDealt, files
<1>2. Names' = Names /\ (GpusDistinct' <=> GpusDistinct) /\ \A g \in Gpus : File(g)' = File(g)
  BY <1>1 DEF Names, GpusDistinct, File, Gpu
<1>3. TypeInv'
  BY <1>1, <1>2 DEF CampaignInv, TypeInv
<1>4. ASSUME GpusDistinct, NEW g \in Gpus PROVE Durable(g)'
  <2>1. Durable(g) /\ pc'[g] = "submitted" /\ File(g)' = File(g)
    BY <1>1, <1>2, <1>4 DEF CampaignInv
  <2>. QED
    BY <1>1, <2>1 DEF Durable, Opened
<1>. QED
  BY <1>2, <1>3, <1>4 DEF CampaignInv

LEMMA InitInv == Init => CampaignInv
<1>. SUFFICES ASSUME Init PROVE CampaignInv
  OBVIOUS
<1>1. Names = DOMAIN shard /\ \A f \in Names : shard[f] = [run |-> 0, rows |-> <<>>]
  BY DEF Init
<1>2. TypeInv
  BY <1>1, EmptyIs DEF Init, TypeInv
<1>3. ASSUME NEW g \in Gpus PROVE Durable(g)
  <2>1. /\ main = "new" /\ pc[g] = "new" /\ rows[g] = <<>> /\ logged[g] = {} /\ DOMAIN <<>> = {}
    BY DEF Init
  <2>2. File(g).rows = <<>>
    BY <1>1, <1>2, GpuNamed DEF TypeInv, File
  <2>. QED
    BY <2>1, <2>2, EmptyIs DEF Durable, Opened
<1>. QED
  BY <1>2, <1>3 DEF CampaignInv

LEMMA StepInv == CampaignInv /\ [Next]_vars => CampaignInv'
<1>. SUFFICES ASSUME CampaignInv, [Next]_vars PROVE CampaignInv'
  OBVIOUS
<1>0. run \in Nat
  BY DEF CampaignInv, TypeInv
<1>1. CASE Start
  <2>1. run' = run + 1 /\ UNCHANGED <<plan, shard, logged>> /\ Afresh
    BY <1>1 DEF Start, files
  <2>. QED
    BY <1>0, <2>1, AfreshInv
<1>2. CASE Killed
  <2>1. UNCHANGED <<run, plan, shard, logged>> /\ main' = "dead" /\ Afresh
    BY <1>2 DEF Killed, files
  <2>. QED
    BY <1>0, <2>1, AfreshInv
<1>3. CASE Main
  <2>1. CASE Submit
    BY <2>1, SubmitInv
  <2>2. CASE ~Submit
    <3>1. /\ UNCHANGED <<plan, run, pc, rows, buffer, shard, logged>>
          /\ main' = "dealing" => main = "dealing"
      <4>1. CASE CheckExists
        BY <4>1 DEF CheckExists, files, workerVars
      <4>2. CASE Stat
        BY <4>2 DEF Stat, files, workerVars
      <4>3. CASE \E g \in Gpus : Collect(g)
        BY <4>3 DEF Collect, files, workerVars
      <4>4. CASE Fail
        BY <4>4 DEF Fail, files, workerVars
      <4>5. CASE Report
        BY <4>5 DEF Report, OpenCombined, WriteCombined, OpenSummary, WriteSummary,
                    OpenMatrixSummary, WriteMatrixSummary, files, workerVars
      <4>. QED
        BY <1>3, <2>2, <4>1, <4>2, <4>3, <4>4, <4>5 DEF Main
    <3>. QED
      BY <3>1, MainInv
  <2>. QED
    BY <2>1, <2>2
<1>4. CASE FileVanishes
  BY <1>4, MainInv DEF FileVanishes, mainVars, workerVars
<1>5. CASE \E g \in Gpus : Worker(g) \/ ChildEnds(g) \/ OutputUnreadable(g)
  BY <1>5, WorkerInv
<1>6. CASE UNCHANGED vars
  BY <1>6, MainInv DEF vars, mainVars, files, workerVars
<1>. QED
  BY <1>1, <1>2, <1>3, <1>4, <1>5, <1>6 DEF Next

\* The inductive invariant, for every plan and number of campaigns.
THEOREM Inductive == Spec => []CampaignInv
BY InitInv, StepInv, PTL DEF Spec

\* A row announced as DONE is in the shard file for good, and the shard file of
\* a worker that ended has its rows and no other, unless a GPU is named twice.
THEOREM RowsAreDurable == Spec => []DoneRowsDurable
<1>1. CampaignInv => DoneRowsDurable
  <2>. SUFFICES ASSUME CampaignInv, GpusDistinct, NEW g \in Gpus
                PROVE  /\ \A row \in logged[g] :
                            row.run = shard[Gpu(g)].run => row \in Range(shard[Gpu(g)].rows)
                       /\ pc[g] \in {"returned", "raised"} =>
                            shard[Gpu(g)] = [run |-> run, rows |-> rows[g]]
    BY DEF DoneRowsDurable
  <2>1. Durable(g) /\ Gpu(g) \in Names
    BY GpuNamed DEF CampaignInv, TypeInv
  <2>2. \A row \in logged[g] :
          row.run = shard[Gpu(g)].run => row \in Range(shard[Gpu(g)].rows)
    BY <2>1 DEF Durable, File
  <2>3. ASSUME pc[g] \in {"returned", "raised"}
        PROVE  shard[Gpu(g)] = [run |-> run, rows |-> rows[g]]
    <3>1. /\ File(g).run = run /\ rows[g] = File(g).rows \o buffer[g] /\ buffer[g] = <<>>
          /\ IsSequence(File(g).rows)
      BY <2>1, <2>3 DEF Durable, Opened
    <3>2. rows[g] = File(g).rows
      BY <3>1, JoinedEmpty
    <3>3. File(g) = [run |-> File(g).run, rows |-> File(g).rows]
      BY <2>1 DEF CampaignInv, TypeInv, File
    <3>. QED
      BY <3>1, <3>2, <3>3 DEF File
  <2>. QED
    BY <2>2, <2>3
<1>. QED
  BY <1>1, Inductive, PTL
=============================================================================
