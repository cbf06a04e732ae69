------------------------------- MODULE MCDataset -------------------------------
(***************************************************************************)
(* Small configurations of Dataset: two jobs, one or two ranks, up to four  *)
(* files, so that a second job finds what a first one of another size,      *)
(* layout, format or number of samples left, whole or cut.                  *)
(***************************************************************************)
EXTENDS Dataset

Shape(train, valid, foldersTrain, foldersValid) ==
  [files   |-> [train |-> train, valid |-> valid],
   folders |-> [train |-> foldersTrain, valid |-> foldersValid]]

Job(shape, format, ranks, threads, samples, generate, eval) ==
  [ranks |-> ranks, threads |-> threads, files |-> shape.files, folders |-> shape.folders,
   format |-> format, samples |-> samples, generate |-> generate, only |-> FALSE,
   train |-> TRUE, eval |-> eval, keep |-> TRUE]

MCConfigurations ==
  LET two   == Shape(2, 0, 0, 0)
      three == Shape(3, 0, 0, 0)
      both  == Shape(2, 1, 0, 0)
  IN { Job(two, "npz", 2, 1, 1, TRUE, FALSE),
       Job(two, "npz", 1, 2, 2, TRUE, FALSE),
       Job(three, "npz", 2, 2, 2, TRUE, FALSE),
       Job(both, "npz", 2, 1, 1, TRUE, TRUE),
       Job(both, "npz", 1, 3, 2, FALSE, TRUE),
       Job(three, "npz", 2, 1, 2, FALSE, FALSE),
       Job(two, "tfrecord", 1, 2, 1, TRUE, FALSE),
       Job(two, "tfrecord", 2, 1, 2, TRUE, FALSE),
       Job(Shape(3, 0, 2, 0), "tfrecord", 1, 1, 1, TRUE, FALSE),
       Job(Shape(3, 0, 3, 0), "tfrecord", 2, 1, 2, TRUE, FALSE),
       Job(two, "hdf5", 1, 4, 2, TRUE, FALSE),
       Job(two, "jpeg", 2, 1, 2, TRUE, FALSE),
       Job(Shape(3, 0, 2, 0), "npz", 2, 1, 1, TRUE, FALSE),
       Job(Shape(2, 1, 0, 2), "npz", 1, 1, 1, TRUE, TRUE),
       Job(Shape(2, 0, 1, 0), "npz", 1, 1, 1, TRUE, FALSE),
       Job(Shape(2, 0, 2, 2), "npz", 2, 1, 1, FALSE, FALSE),
       Job(Shape(3, 0, 0, 0), "indexed_binary", 2, 1, 1, TRUE, FALSE),
       [Job(two, "npz", 2, 1, 1, TRUE, FALSE) EXCEPT !.keep = FALSE],
       [Job(three, "tfrecord", 1, 1, 1, TRUE, FALSE) EXCEPT !.only = TRUE, !.train = FALSE] }
================================================================================
