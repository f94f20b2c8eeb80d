----------------------------- MODULE DiskLayout -----------------------------
(* The sectors of an image: DiskProps of defines.hpp and the p_ fields of  *)
(* SuperBlock, which divide the disk into zones.                           *)
EXTENDS Integers

BLOCK_SIZE == 512
CYLINDERS == 20
HEADS == 16
SECTORS_PER_TRACK == 63

BLOCKS_BOOTLOAD == 1
BLOCKS_KERNEL == 199
BLOCKS_SUPERBLOCK == 2
BLOCKS_INODE_ZONE == 822
BLOCKS_SWAP_ZONE == 2160

p_size_sectors == CYLINDERS * HEADS * SECTORS_PER_TRACK
p_off_inodes == BLOCKS_BOOTLOAD + BLOCKS_KERNEL + BLOCKS_SUPERBLOCK
p_size_inodes == BLOCKS_INODE_ZONE
p_off_data == p_off_inodes + p_size_inodes
p_size_data == p_size_sectors - p_off_data - BLOCKS_SWAP_ZONE
p_off_swap == p_off_data + p_size_data

TABLE_SIZE == 100     \* of s_free_ and s_inode_

SIZE_INODE == 64
Inodes == (BLOCKS_INODE_ZONE * BLOCK_SIZE) \div SIZE_INODE
=============================================================================
